---- MODULE Spec2Model ----
(***************************************************************************)
(* Conversation-history subsystem of CopilotKit (react-core):              *)
(*   - ConversationService   services/conversation-service.ts              *)
(*   - conversation hooks    hooks/use-copilot-conversation.ts             *)
(*   - ConversationState     types/conversation.ts                         *)
(*   - the synchronization effects documented for ConversationLoader       *)
(*     (enhance_copilot_popup.md) and CopilotMessages                      *)
(*     (better_approach_conversation_features.md)                          *)
(* The backend is an HTTP server holding the persisted messages of each    *)
(* conversation; requests complete in any order.                           *)
(***************************************************************************)
EXTENDS Integers, Sequences, FiniteSets, TLC

(* ------------------------------ bounds --------------------------------- *)
\* load-message requests the bridge issues in one behaviour
MaxLoads == 2
\* load-message requests of switchToConversation pending at a time
MaxHookPending == 1
\* messages the host appends to the live list in one behaviour
MaxAppends == 1
\* direct calls of the exposed saveMessage in one behaviour
MaxCalls == 1

(* ------------------------------ values --------------------------------- *)
None == "undefined"
ConvIds == {"A", "B"}
UserId == "user-123"

\* A host message: kind is what isTextMessage()/isActionExecutionMessage()/...
\* answer; data is the kind's payload (content, name, result, agentName).
\* Text is a sequence of tokens, so that a prefix such as "Action: " is a
\* real concatenation.  A "malformed" value is an object that is no Message
\* instance: its type predicates are not functions.
HostText(i, r, d) == [id |-> i, kind |-> "text", role |-> r, data |-> d]
HostOther(i, k, r, d) == [id |-> i, kind |-> k, role |-> r, data |-> d]

\* what the chat flow appends to the live list: the user's message, then the
\* assistant's action, ... (the k-th message of the session)
ChatMessage(k) ==
    IF k % 2 = 1 THEN HostText(<<"m", k>>, "user", <<"hi">>)
    ELSE HostOther(<<"m", k>>, "action", "assistant", <<"search">>)

\* what a host application hands to the exposed saveMessage itself: a plain
\* object, not one of the live list's Message instances
CallableMessages ==
    { HostOther(<<"c", 1>>, "malformed", "user", <<"x">>) }

(* ------------------------------ letters -------------------------------- *)
\* a text is a sequence of characters
UpperLetters ==
    << "A", "B", "C", "D", "E", "F", "G", "H", "I", "J", "K", "L", "M",
       "N", "O", "P", "Q", "R", "S", "T", "U", "V", "W", "X", "Y", "Z" >>
LowerLetters ==
    << "a", "b", "c", "d", "e", "f", "g", "h", "i", "j", "k", "l", "m",
       "n", "o", "p", "q", "r", "s", "t", "u", "v", "w", "x", "y", "z" >>

\* String.prototype.toLowerCase, character by character
LowerChar(c) ==
    IF \E i \in 1..26 : UpperLetters[i] = c
    THEN LowerLetters[CHOOSE i \in 1..26 : UpperLetters[i] = c]
    ELSE c

toLowerCase(text) == [i \in 1..Len(text) |-> LowerChar(text[i])]

\* the role literals of the wire format
W_user == <<"u", "s", "e", "r">>
W_assistant == <<"a", "s", "s", "i", "s", "t", "a", "n", "t">>
W_system == <<"s", "y", "s", "t", "e", "m">>

(* --------------------------- message codec ----------------------------- *)
\* conversation-service.ts getMessageRole
getMessageRole(message) ==
    IF message.kind = "text" THEN message.role
    ELSE IF message.kind = "agent_state" THEN message.role
    ELSE IF message.kind = "image" THEN message.role
    ELSE "assistant"

\* conversation-service.ts mapCopilotRoleToApiRole: a member of MessageRole
\* (a host role, written here by its name) to the role text of the wire
mapCopilotRoleToApiRole(copilotRole) ==
    CASE copilotRole = "user" -> W_user
      [] copilotRole = "assistant" -> W_assistant
      [] copilotRole = "system" -> W_system
      [] OTHER -> W_user

\* a plausible slip: the wire role is compared as it is
mapApiRoleToCopilotRole_exact(apiRole) ==
    CASE apiRole = W_user -> "user"
      [] apiRole = W_assistant -> "assistant"
      [] apiRole = W_system -> "system"
      [] OTHER -> "user"

\* conversation-service.ts mapApiRoleToCopilotRole:
\* switch (apiRole.toLowerCase())
mapApiRoleToCopilotRole(apiRole) ==
    CASE toLowerCase(apiRole) = W_user -> "user"
      [] toLowerCase(apiRole) = W_assistant -> "assistant"
      [] toLowerCase(apiRole) = W_system -> "system"
      [] OTHER -> "user"

\* conversation-service.ts extractMessageContent
extractMessageContent(message) ==
    IF message.kind = "text" THEN message.data
    ELSE IF message.kind = "action" THEN <<"Action: ">> \o message.data
    ELSE IF message.kind = "result" THEN <<"Result: ">> \o message.data
    ELSE IF message.kind = "agent_state" THEN <<"Agent State: ">> \o message.data
    ELSE IF message.kind = "image" THEN <<"[Image Message]">>
    ELSE <<"Unknown message type">>

\* a plausible slip: the tag is the kind's own name, also for a kind the
\* codec does not know
getMessageType_kindName(message) == message.kind

\* conversation-service.ts getMessageType
getMessageType(message) ==
    IF message.kind = "text" THEN "text"
    ELSE IF message.kind = "action" THEN "action"
    ELSE IF message.kind = "result" THEN "result"
    ELSE IF message.kind = "agent_state" THEN "agent_state"
    ELSE IF message.kind = "image" THEN "image"
    ELSE "unknown"

\* the type predicates of a value that is no Message instance throw
Encodable(message) == message.kind # "malformed"

\* a plausible slip: the body is tagged with the owner instead of the
\* conversation the call was made for
convertCopilotMessageToApiMessage_owner(message, conversationId) ==
    [ conversationId |-> UserId,
      userId |-> UserId,
      role |-> mapCopilotRoleToApiRole(getMessageRole(message)),
      content |-> extractMessageContent(message),
      messageMetadata |-> << [type |-> getMessageType(message),
                              messageId |-> message.id] >> ]

\* conversation-service.ts convertCopilotMessageToApiMessage (the body of a
\* save request: a ConversationMessage without id and timestamps);
\* messageMetadata is optional on the wire: <<>> when absent
convertCopilotMessageToApiMessage(message, conversationId) ==
    [ conversationId |-> conversationId,
      userId |-> UserId,
      role |-> mapCopilotRoleToApiRole(getMessageRole(message)),
      content |-> extractMessageContent(message),
      messageMetadata |-> << [type |-> getMessageType(message),
                              messageId |-> message.id] >> ]

\* a plausible slip: only the wire messages whose metadata type is text are
\* converted, the others are left out
convertApiMessagesToCopilotMessages_textOnly(apiMessages) ==
    LET IsText(m) == m.messageMetadata # <<>> /\ m.messageMetadata[1].type = "text"
        kept == SelectSeq(apiMessages, IsText)
    IN  [ i \in 1..Len(kept) |->
            HostText(kept[i].id, mapApiRoleToCopilotRole(kept[i].role),
                     kept[i].content) ]

\* conversation-service.ts convertApiMessagesToCopilotMessages: every wire
\* message becomes a TextMessage, whatever its metadata type
convertApiMessagesToCopilotMessages(apiMessages) ==
    [ i \in 1..Len(apiMessages) |->
        HostText(apiMessages[i].id,
                 mapApiRoleToCopilotRole(apiMessages[i].role),
                 apiMessages[i].content) ]

(* ------------------------------ backend -------------------------------- *)
\* the persisted form of a request body: the backend assigns the id
Persisted(body, conv, n) ==
    [ id |-> <<"srv", conv, n>>,
      conversationId |-> body.conversationId,
      userId |-> body.userId,
      role |-> body.role,
      content |-> body.content,
      messageMetadata |-> body.messageMetadata ]

\* a Conversation (types/conversation.ts); a text is a sequence of
\* characters; the optional lastMessage is <<>> when absent
Conv(i, t, l, c, u, n) ==
    [ id |-> i, userId |-> UserId, title |-> t, lastMessage |-> l,
      createdAt |-> c, updatedAt |-> u, messageCount |-> n ]

InitialBackend ==
    << Conv("A", <<"T", "r", "i", "p">>, <<>>, 1, 3, 2),
       Conv("B", <<"B", "u", "d">>, << <<"t", "a", "x">> >>, 2, 2, 1) >>

\* no call has returned yet
NoOp == [op |-> "none", settle |-> "none", value |-> <<>>, outcome |-> "none",
         after |-> {}]

InitialStored ==
    [ c \in ConvIds |->
        << [ id |-> <<"srv", c, 1>>,
             conversationId |-> c,
             userId |-> UserId,
             role |-> IF c = "A" THEN W_user ELSE W_assistant,
             content |-> <<"stored in ", c>>,
             messageMetadata |-> <<>> ] >> ]

(* ------------------------------- state --------------------------------- *)
VARIABLES
    \* ConversationState (types/conversation.ts)
    conversations, currentConversationId, isLoading, error, initialized,
    \* the configuration handed to the provider
    conversationConfig, autoSaveMessages,
    \* the live message list of the host's message subsystem
    messages,
    \* the backend: the persisted messages of each conversation
    stored,
    \* the bridge's load-message requests in flight, and how many it issued
    loads, issued,
    \* how many load-message requests of switchToConversation are in flight
    hookLoads,
    \* save requests: all that were issued, and those still in flight
    saveLog, saves,
    \* what the host did: the appends to the live list, the direct calls
    appendLog, calls,
    \* the load response last written to the live list (and the newest request
    \* ever written), the last save settled
    applied, lastSave,
    \* the backend: the conversations it holds for the user
    backend,
    \* the requests of the conversation-list operations in flight (list,
    \* create, delete, update), and how many were issued
    reqs, opsIssued,
    \* the last call of a conversation operation that returned or settled
    lastOp,
    \* the ids whose deletion the backend confirmed
    deleted,
    \* the operations called while no configuration was supplied
    noopCalls,
    \* ConversationList: its isCreating state
    isCreating

state == <<conversations, currentConversationId, isLoading, error, initialized>>
vars == <<conversations, currentConversationId, isLoading, error, initialized,
          conversationConfig, autoSaveMessages, messages, stored, loads, issued,
          hookLoads, saveLog, saves, appendLog, calls, applied, lastSave,
          backend, reqs, opsIssued, lastOp, deleted, noopCalls, isCreating>>
listVars == <<backend, reqs, opsIssued, lastOp, deleted, noopCalls>>

\* JavaScript truthiness of the autoSave setting
Truthy(v) == v = "true"

\* conversation-service.ts constructor: { autoSave: true, ...config }; a key
\* that is present in config, also with the value undefined, overrides
ServiceAutoSave(config) ==
    IF config.autoSave = "absent" THEN "true" ELSE config.autoSave

Init ==
    /\ conversations = <<>>
    /\ currentConversationId = None
    /\ isLoading = FALSE
    /\ error = None
    /\ initialized = FALSE
    /\ conversationConfig \in
         { [autoSave |-> a] : a \in {"true", "false"} }
    /\ autoSaveMessages \in BOOLEAN
    /\ messages = <<>>
    /\ stored = InitialStored
    /\ loads = {}
    /\ issued = 0
    /\ hookLoads = 0
    /\ saveLog = <<>>
    /\ saves = {}
    /\ appendLog = <<>>
    /\ calls = 0
    /\ applied = [seq |-> 0, id |-> None, newest |-> 0, newestId |-> None]
    /\ lastSave = [outcome |-> "none", settle |-> "none"]
    /\ backend = InitialBackend
    /\ reqs = {}
    /\ opsIssued = 0
    /\ lastOp = NoOp
    /\ deleted = {}
    /\ noopCalls = {}
    /\ isCreating = FALSE

(* ------------------------- ConversationService.saveMessage ------------- *)
\* a plausible slip: the autoSave guard is missing
saveMessage_returnsEarly_never(autoSave) == FALSE

\* conversation-service.ts saveMessage, lines 144-146:
\* if (!this.config.autoSave) return
saveMessage_returnsEarly(autoSave) == ~Truthy(autoSave)

\* a plausible slip: the catch block rethrows, as every other operation of
\* the service does
saveMessage_catch_rethrow(outcome) ==
    [settle |-> "rejected", surfaced |-> None]

\* a plausible slip: the catch block reports the failure into the state
saveMessage_catch_surface(outcome) ==
    [settle |-> "resolved", surfaced |-> "Failed to save message"]

\* conversation-service.ts saveMessage, lines 166-169: the catch block logs
\* the error; the promise resolves and nothing is reported to the state
saveMessage_catch(outcome) ==
    [settle |-> "resolved", surfaced |-> None]

\* how a save settles: the try block completes, or the catch block runs
saveMessage_settle(outcome) ==
    IF outcome = "ok" THEN [settle |-> "resolved", surfaced |-> None]
    ELSE saveMessage_catch(outcome)

\* what one call of ConversationService.saveMessage does before its first
\* await: "skipped" (autoSave off), "encode" (the conversion threw inside
\* the try block) or "sent" (the POST was issued)
saveMessage_atCall(message, conversationId) ==
    IF saveMessage_returnsEarly(ServiceAutoSave(conversationConfig)) THEN "skipped"
    ELSE IF ~Encodable(message) THEN "encode"
    ELSE "sent"

\* POST {apiBaseUrl}{conversations}/{conversationId}/messages
saveMessage_request(message, conversationId) ==
    [ path |-> conversationId,
      body |-> convertCopilotMessageToApiMessage(message, conversationId) ]

(* ------------------------- the store's saveMessage ---------------------- *)
\* a plausible slip: the store forwards also when no conversation is active
StoreSaveMessage_forwards_always(current) == TRUE

\* ConversationMethods.saveMessage: forwards to the service unless no
\* conversation is active
StoreSaveMessage_forwards(current) == current # None

\* store.saveMessage called with each message of toSave (none or one), while
\* current is the active conversation; saveLog keeps each request with the
\* conversation that was active when it was issued
StoreSaveMessage(toSave, current, by) ==
    LET kind == IF toSave = <<>> THEN "nocall"
                ELSE IF ~StoreSaveMessage_forwards(current) THEN "noop"
                ELSE saveMessage_atCall(toSave[1], current)
    IN  /\ saveLog' = IF kind = "sent"
                      THEN Append(saveLog,
                             [ request |-> saveMessage_request(toSave[1], current),
                               active |-> currentConversationId,
                               by |-> by ])
                      ELSE saveLog
        /\ saves' = IF kind = "sent" THEN saves \cup {Len(saveLog) + 1} ELSE saves
        /\ lastSave' = IF kind = "encode"
                       THEN [outcome |-> "encode",
                             settle |-> saveMessage_settle("encode").settle]
                       ELSE lastSave
        /\ error' = IF kind = "encode" /\ saveMessage_settle("encode").surfaced # None
                    THEN saveMessage_settle("encode").surfaced
                    ELSE error

(* ------------------------- synchronization effects --------------------- *)
\* CopilotMessages, the effect on [messages]: the messages it hands to
\* saveMessage after the live list changed to msgs
CopilotMessages_autoSave(msgs) ==
    IF autoSaveMessages /\ Len(msgs) > 0 THEN << msgs[Len(msgs)] >> ELSE <<>>

\* a plausible slip: the loaded messages are added to the list
ConversationLoader_setMessages_merge(old, loaded) == old \o loaded

\* ConversationLoader: setMessages(messages) with the loaded messages
ConversationLoader_setMessages(old, loaded) == loaded

\* ConversationLoader, the effect on [currentConversationId]: the load
\* requests it issues when the id changes from prev to next
ConversationLoader_effect(prev, next, seq) ==
    IF next # prev /\ next # None
    THEN { [seq |-> seq, id |-> next] }
    ELSE {}

(* ------------------------------ operations ----------------------------- *)
\* useCopilotCurrentConversation.switchToConversation: setCurrentConversation
\* and loadConversation, whose result is dropped; the change of the id then
\* runs the ConversationLoader effect
switchToConversation(id) ==
    LET eff == ConversationLoader_effect(currentConversationId, id, issued + 1)
    IN  /\ hookLoads < MaxHookPending
        /\ issued + Cardinality(eff) <= MaxLoads
        /\ currentConversationId' = id
        /\ hookLoads' = hookLoads + 1
        /\ loads' = loads \cup eff
        /\ issued' = issued + Cardinality(eff)
        /\ UNCHANGED <<conversations, isLoading, error, initialized,
                       conversationConfig, isCreating, autoSaveMessages, messages, stored,
                       saveLog, saves, appendLog, calls, applied, lastSave>>

\* useCopilotCurrentConversation.clearCurrentConversation:
\* setCurrentConversation(undefined); neither effect does anything for an
\* undefined id
clearCurrentConversation ==
    /\ currentConversationId # None
    /\ currentConversationId' = None
    /\ loads' = loads \cup ConversationLoader_effect(currentConversationId, None, issued + 1)
    /\ UNCHANGED <<conversations, isLoading, error, initialized,
                   conversationConfig, isCreating, autoSaveMessages, messages, stored, issued,
                   hookLoads, saveLog, saves, appendLog, calls, applied, lastSave>>

\* the chat flow appends a message to the live list; the change of the list
\* runs the CopilotMessages auto-save effect
AppendMessage(m) ==
    /\ Len(appendLog) < MaxAppends
    /\ messages' = Append(messages, m)
    /\ appendLog' = Append(appendLog,
                      [messageId |-> m.id, conv |-> currentConversationId,
                       inFlight |-> {r.seq : r \in loads}])
    /\ StoreSaveMessage(CopilotMessages_autoSave(messages'), currentConversationId, "effect")
    /\ UNCHANGED <<conversations, currentConversationId, isLoading, initialized,
                   conversationConfig, isCreating, autoSaveMessages, stored, loads, issued,
                   hookLoads, calls, applied>>

\* the host calls the exposed saveMessage itself
CallSaveMessage(m) ==
    /\ calls < MaxCalls
    /\ calls' = calls + 1
    /\ StoreSaveMessage(<<m>>, currentConversationId, "call")
    /\ UNCHANGED <<conversations, currentConversationId, isLoading, initialized,
                   conversationConfig, isCreating, autoSaveMessages, messages, stored, loads,
                   issued, hookLoads, appendLog, applied>>

\* the backend answers GET /conversations/{id}/messages for a call of the
\* store's loadConversation: it returns the decoded messages, or records
\* the failure in error and returns undefined
loadConversation_error(outcome, err) ==
    IF outcome = "ok" THEN err ELSE "Failed to load conversation"

\* ... for switchToConversation's own call, which drops the result
HookLoadRespond(outcome) ==
    /\ hookLoads > 0
    /\ hookLoads' = hookLoads - 1
    /\ error' = loadConversation_error(outcome, error)
    /\ UNCHANGED <<conversations, currentConversationId, isLoading, initialized,
                   conversationConfig, isCreating, autoSaveMessages, messages, stored, loads,
                   issued, saveLog, saves, appendLog, calls, applied, lastSave>>

\* ... for request r of the ConversationLoader effect, which continues with
\* setMessages(result); the change of the list runs the auto-save effect
LoadRespond(r, outcome) ==
    /\ r \in loads
    /\ loads' = loads \ {r}
    /\ IF outcome = "ok"
       THEN /\ applied' = [seq |-> r.seq, id |-> r.id,
                           newest |-> IF r.seq > applied.newest THEN r.seq
                                      ELSE applied.newest,
                           newestId |-> IF r.seq > applied.newest THEN r.id
                                        ELSE applied.newestId]
            /\ messages' = ConversationLoader_setMessages(messages,
                             convertApiMessagesToCopilotMessages(stored[r.id]))
            /\ StoreSaveMessage(CopilotMessages_autoSave(messages'),
                                currentConversationId, "effect")
       ELSE \* setMessages(undefined): the list is left as it was or emptied
            /\ messages' \in {messages, <<>>}
            /\ error' = loadConversation_error(outcome, error)
            /\ UNCHANGED <<saveLog, saves, lastSave, applied>>
    /\ UNCHANGED <<conversations, currentConversationId, isLoading, initialized,
                   conversationConfig, isCreating, autoSaveMessages, stored, issued, hookLoads,
                   appendLog, calls>>

\* the backend answers save request n: on "ok" the message is persisted
\* under the conversation of the request path (a path that names no
\* conversation is never answered "ok"); a transport failure or a non-2xx
\* response persists nothing
SaveRespond(n, outcome) ==
    /\ n \in saves
    /\ outcome = "ok" => saveLog[n].request.path \in DOMAIN stored
    /\ saves' = saves \ {n}
    /\ stored' = IF outcome = "ok"
                 THEN [stored EXCEPT ![saveLog[n].request.path] =
                         Append(@, Persisted(saveLog[n].request.body,
                                             saveLog[n].request.path, Len(@) + 1))]
                 ELSE stored
    /\ lastSave' = [outcome |-> outcome,
                    settle |-> saveMessage_settle(outcome).settle]
    /\ error' = IF saveMessage_settle(outcome).surfaced # None
                THEN saveMessage_settle(outcome).surfaced
                ELSE error
    /\ UNCHANGED <<conversations, currentConversationId, isLoading, initialized,
                   conversationConfig, isCreating, autoSaveMessages, messages, loads, issued,
                   hookLoads, saveLog, appendLog, calls, applied>>

Next ==
    \/ (\E id \in ConvIds : switchToConversation(id)) /\ UNCHANGED listVars
    \/ clearCurrentConversation /\ UNCHANGED listVars
    \/ AppendMessage(ChatMessage(Len(appendLog) + 1)) /\ UNCHANGED listVars
    \/ (\E m \in CallableMessages : CallSaveMessage(m)) /\ UNCHANGED listVars
    \/ (\E outcome \in {"ok", "fail"} : HookLoadRespond(outcome))
           /\ UNCHANGED listVars
    \/ (\E r \in loads, outcome \in {"ok", "fail"} : LoadRespond(r, outcome))
           /\ UNCHANGED listVars
    \/ (\E n \in saves, outcome \in {"ok", "transport", "non2xx"} :
            SaveRespond(n, outcome)) /\ UNCHANGED listVars

Spec == Init /\ [][Next]_vars

(* ---------------------- configuration: isEnabled ---------------------- *)
\* no conversationConfig was handed to the provider
NoConfig == [absent |-> TRUE]

\* a plausible slip: the hooks do not look at the configuration
isEnabled_always(config) == TRUE

\* use-copilot-conversation.ts useCopilotConversation, line 22:
\* isEnabled: !!conversationConfig
isEnabled(config) == config # NoConfig

(* ------------------------------ texts ---------------------------------- *)
\* String.prototype.includes
includes(text, part) ==
    \E i \in 0..Len(text) :
        /\ i + Len(part) <= Len(text)
        /\ SubSeq(text, i + 1, i + Len(part)) = part

\* !query.trim(): the query is empty or only white space
IsBlank(query) == \A i \in 1..Len(query) : query[i] \in {" ", "\t", "\n"}

\* the UTF-16 code unit of a character, by which < and > compare strings
CharCode(c) ==
    CASE c = " " -> 32
      [] c = "B" -> 66
      [] c = "R" -> 82
      [] c = "T" -> 84
      [] c = "a" -> 97
      [] c = "b" -> 98
      [] c = "d" -> 100
      [] c = "i" -> 105
      [] c = "p" -> 112
      [] c = "r" -> 114
      [] c = "t" -> 116
      [] c = "u" -> 117
      [] c = "x" -> 120
      [] OTHER -> 0

\* a < b for strings
RECURSIVE TextLess(_, _)
TextLess(a, b) ==
    IF b = <<>> THEN FALSE
    ELSE IF a = <<>> THEN TRUE
    ELSE IF CharCode(a[1]) # CharCode(b[1]) THEN CharCode(a[1]) < CharCode(b[1])
    ELSE TextLess(Tail(a), Tail(b))

(* --------------- useCopilotConversationSearch: pure queries ------------ *)
\* a plausible slip: the texts are compared as they are
searchConversations_caseSensitive(enabled, convs, query) ==
    IF ~enabled \/ IsBlank(query) THEN convs
    ELSE LET Hit(conversation) ==
                 \/ includes(conversation.title, query)
                 \/ /\ conversation.lastMessage # <<>>
                    /\ includes(conversation.lastMessage[1], query)
         IN  SelectSeq(convs, Hit)

\* use-copilot-conversation.ts searchConversations, lines 157-165
searchConversations(enabled, convs, query) ==
    IF ~enabled \/ IsBlank(query) THEN convs
    ELSE LET lowerQuery == toLowerCase(query)
             Hit(conversation) ==
                 \/ includes(toLowerCase(conversation.title), lowerQuery)
                 \/ /\ conversation.lastMessage # <<>>
                    /\ includes(toLowerCase(conversation.lastMessage[1]), lowerQuery)
         IN  SelectSeq(convs, Hit)

\* the predicates a host passes to filterConversations
Predicates == {"hasMessages", "none"}
Holds(predicate, conversation) ==
    IF predicate = "hasMessages" THEN conversation.messageCount > 1 ELSE FALSE

\* use-copilot-conversation.ts filterConversations, lines 167-170
filterConversations(enabled, convs, predicate) ==
    IF ~enabled THEN <<>>
    ELSE LET Keep(conversation) == Holds(predicate, conversation)
         IN  SelectSeq(convs, Keep)

\* the comparator of sortConversations, lines 179-209: negative, zero or
\* positive
Compare(a, b, sortBy, order) ==
    LET less ==
            CASE sortBy = "title" ->
                   TextLess(toLowerCase(a.title), toLowerCase(b.title))
              [] sortBy = "createdAt" -> a.createdAt < b.createdAt
              [] sortBy = "updatedAt" -> a.updatedAt < b.updatedAt
              [] sortBy = "messageCount" -> a.messageCount < b.messageCount
              [] OTHER -> FALSE
        greater ==
            CASE sortBy = "title" ->
                   TextLess(toLowerCase(b.title), toLowerCase(a.title))
              [] sortBy = "createdAt" -> b.createdAt < a.createdAt
              [] sortBy = "updatedAt" -> b.updatedAt < a.updatedAt
              [] sortBy = "messageCount" -> b.messageCount < a.messageCount
              [] OTHER -> FALSE
    IN  IF order = "asc"
        THEN (IF less THEN -1 ELSE IF greater THEN 1 ELSE 0)
        ELSE (IF greater THEN -1 ELSE IF less THEN 1 ELSE 0)

\* Array.prototype.sort is stable: an element goes behind every element that
\* does not compare greater than it
RECURSIVE InsertSorted(_, _, _, _)
InsertSorted(sorted, c, sortBy, order) ==
    IF sorted = <<>> THEN <<c>>
    ELSE IF Compare(c, sorted[1], sortBy, order) < 0 THEN <<c>> \o sorted
    ELSE <<sorted[1]>> \o InsertSorted(Tail(sorted), c, sortBy, order)

RECURSIVE StableSort(_, _, _)
StableSort(convs, sortBy, order) ==
    IF convs = <<>> THEN <<>>
    ELSE InsertSorted(StableSort(SubSeq(convs, 1, Len(convs) - 1), sortBy, order),
                      convs[Len(convs)], sortBy, order)

\* use-copilot-conversation.ts sortConversations, lines 172-210
sortConversations(enabled, convs, sortBy, order) ==
    IF ~enabled THEN <<>> ELSE StableSort(convs, sortBy, order)

(* ------------------ ConversationService: list operations -------------- *)
\* store requests (list, create, delete, update) issued in one behaviour
MaxRequests == 3

\* ids the backend assigns to new conversations
NewIds == {"N"}
\* the key under which a backend returns the id of a new conversation
CreateKeys == {"id", "conversationId", "_id"}
\* the titles a host passes to createConversation; <<>> is an omitted title
Titles == { <<>>, <<"R", "i", "o">> }
\* `Conversation ${new Date().toLocaleString()}`
DefaultTitle == <<"C", "o", "n", "v", " ", "t", "s">>

\* the response of the list endpoint: a JSON array, or something else
ListBody(items, isArray) == [isArray |-> isArray, items |-> items]

\* conversation-service.ts getConversations, lines 47-48:
\* Array.isArray(conversations) ? conversations : []
getConversations_result(body) ==
    IF body.isArray THEN body.items ELSE <<>>

\* conversation-service.ts getConversations, lines 49-52: the catch block
\* logs and rethrows
getConversations_catch(outcome) == "rejected"

\* conversation-service.ts getConversationMessages, lines 77-80
getConversationMessages_catch(outcome) == "rejected"

\* conversation-service.ts createConversation, lines 96-99: the request body
createConversation_body(title) ==
    [ userId |-> UserId,
      title |-> IF title # <<>> THEN title ELSE DefaultTitle ]

\* the response of the create endpoint carrying the new id under one key
CreateResult(key, newId) ==
    [ id |-> IF key = "id" THEN newId ELSE "",
      conversationId |-> IF key = "conversationId" THEN newId ELSE "",
      _id |-> IF key = "_id" THEN newId ELSE "" ]

\* a plausible slip: only the id key is read
createConversation_result_idOnly(result) == result.id

\* conversation-service.ts createConversation, line 108:
\* result.id || result.conversationId || result._id
createConversation_result(result) ==
    IF result.id # "" THEN result.id
    ELSE IF result.conversationId # "" THEN result.conversationId
    ELSE result._id

\* a plausible slip: the failure of a create is swallowed, as saveMessage
\* does
createConversation_catch_swallow(outcome) == "resolved"

\* conversation-service.ts createConversation, lines 109-112
createConversation_catch(outcome) == "rejected"

\* a plausible slip: the failure of a delete is swallowed, as saveMessage
\* does
deleteConversation_catch_swallow(outcome) == "resolved"

\* conversation-service.ts deleteConversation, lines 134-137
deleteConversation_catch(outcome) == "rejected"

\* conversation-service.ts updateConversation, lines 192-195
updateConversation_catch(outcome) == "rejected"

\* how a call of the service settles: resolved on a 2xx response, else what
\* its catch block does
ServiceSettle(kind, outcome) ==
    IF outcome = "ok" THEN "resolved"
    ELSE CASE kind = "list" -> getConversations_catch(outcome)
           [] kind = "create" -> createConversation_catch(outcome)
           [] kind = "delete" -> deleteConversation_catch(outcome)
           [] kind = "update" -> updateConversation_catch(outcome)
           [] OTHER -> getConversationMessages_catch(outcome)

(* ------------------------------ backend -------------------------------- *)
BackendIds(convs) == { convs[i].id : i \in 1..Len(convs) }

\* the backend creates a conversation from the body of a create request
BackendCreate(convs, newId, body) ==
    Append(convs, Conv(newId, body.title, <<>>, 4, 4, 0))

\* the backend deletes a conversation
BackendDelete(convs, id) ==
    LET Other(c) == c.id # id IN SelectSeq(convs, Other)

\* the backend applies a partial update (the title)
BackendUpdate(convs, id, title) ==
    [ i \in 1..Len(convs) |->
        IF convs[i].id = id THEN [convs[i] EXCEPT !.title = title]
        ELSE convs[i] ]

(* ------------------- Conversation Store: list operations --------------- *)
bridgeVars == <<autoSaveMessages, messages, stored, loads, issued, hookLoads,
                saveLog, saves, appendLog, calls, applied, lastSave>>

\* the store has a ConversationService only when a configuration was
\* supplied; without one its operations do nothing
StoreConfigured(config) == config # NoConfig

Request(kind, by, id, arg, carry) ==
    [ kind |-> kind, seq |-> opsIssued + 1, by |-> by, id |-> id, arg |-> arg,
      snap |-> IF kind = "list" THEN backend ELSE <<>>, carry |-> carry,
      after |-> IF kind = "list" THEN deleted ELSE {} ]

\* a call returned: how it settled and with what value; for a call that
\* waited for a request, the outcome of the request and, for a list request,
\* the deletions that were confirmed before it was sent
Settled(op, settle, value, outcome, after) ==
    [op |-> op, settle |-> settle, value |-> value, outcome |-> outcome,
     after |-> after]

Returned(op, settle, value) == Settled(op, settle, value, "none", {})

\* a call that does nothing and returns value at once, no configuration
\* having been supplied
NoopCall(op, value) ==
    /\ noopCalls' = noopCalls \cup {op}
    /\ lastOp' = Returned(op, "resolved", value)
    /\ UNCHANGED <<state, conversationConfig, isCreating, bridgeVars, backend, reqs,
                   opsIssued, deleted>>

\* a plausible slip: a failed list fetch empties the list
loadConversations_onFailure_clear(convs) == <<>>

\* loadConversations, on failure: the prior list is left intact
loadConversations_onFailure(convs) == convs

\* a plausible slip: isLoading is reset on success only
loadConversations_finally_successOnly(settle, loading) ==
    IF settle = "resolved" THEN FALSE ELSE loading

\* loadConversations, on completion: isLoading=false, success or failure
loadConversations_finally(settle, loading) == FALSE

\* a plausible slip: the store lets the failure of the service through
loadConversations_settle_rethrow(settle) == settle

\* loadConversations / refreshConversations: a failure is recorded in
\* error, the call resolves
loadConversations_settle(settle) == "resolved"

\* loadConversation: a failure is recorded in error, the call resolves
\* (with undefined)
loadConversation_settle(settle) == "resolved"

\* a plausible slip: a failed list fetch takes the session back to "not
\* initialized"
loadConversations_initialized_reset(settle, was) == settle = "resolved"

\* loadConversations, on completion: initialized becomes true on a
\* successful fetch and is otherwise left as it was
loadConversations_initialized(settle, was) ==
    IF settle = "resolved" THEN TRUE ELSE was

\* a plausible slip: the store inserts the new conversation into its list
createConversation_list_insert(convs, newId, body) ==
    Append(convs, Conv(newId, body.title, <<>>, 4, 4, 0))

\* createConversation: the list is left as it is
createConversation_list(convs, newId, body) == convs

\* a plausible slip: the store leaves the removal to a refresh
deleteConversation_list_keep(convs, id) == convs

\* deleteConversation, after the backend confirmed: the id is removed from
\* the local list
deleteConversation_list(convs, id) ==
    LET Other(c) == c.id # id IN SelectSeq(convs, Other)

\* loadConversations (and refreshConversations, which is the same operation)
Store_loadConversations(by, carry) ==
    IF StoreConfigured(conversationConfig)
    THEN /\ opsIssued < MaxRequests
         /\ isLoading' = TRUE
         /\ reqs' = reqs \cup {Request("list", by, "", <<>>, carry)}
         /\ opsIssued' = opsIssued + 1
         /\ UNCHANGED <<conversations, currentConversationId, error, initialized,
                        conversationConfig, isCreating, bridgeVars, backend, lastOp, deleted,
                        noopCalls>>
    ELSE NoopCall(by, <<>>)

\* use-copilot-conversation.ts useCopilotConversationHistory, lines 58-62:
\* the effect that loads the list when the hook mounts or its inputs change
AutoLoad ==
    IF isEnabled(conversationConfig)
    THEN ~initialized /\ ~isLoading /\ Store_loadConversations("autoLoad", <<>>)
    ELSE NoopCall("autoLoad", <<>>)

\* use-copilot-conversation.ts refresh, lines 64-67
refresh ==
    IF isEnabled(conversationConfig)
    THEN Store_loadConversations("refresh", <<>>)
    ELSE NoopCall("refresh", <<>>)

\* the loadConversations that useCopilotConversationHistory hands out (line
\* 76) is the store's own
loadConversations == Store_loadConversations("loadConversations", <<>>)

\* the response of a list request: the backend answered from what it held
\* when the request was sent or from what it holds now, or with a body that
\* is no array
ListBodies(r) ==
    { ListBody(r.snap, TRUE), ListBody(backend, TRUE), ListBody(<<>>, FALSE) }

ListRespond(r, outcome, body) ==
    LET settle == ServiceSettle("list", outcome)
    IN  /\ r \in reqs
        /\ r.kind = "list"
        /\ reqs' = reqs \ {r}
        /\ isLoading' = loadConversations_finally(settle, isLoading)
        /\ conversations' = IF settle = "resolved"
                            THEN getConversations_result(body)
                            ELSE loadConversations_onFailure(conversations)
        /\ initialized' = loadConversations_initialized(settle, initialized)
        /\ error' = IF settle = "resolved" THEN error
                    ELSE "Failed to load conversations"
        \* createNewConversation returns the new id after its refresh
        /\ lastOp' = Settled(r.by, loadConversations_settle(settle), r.carry,
                             outcome, r.after)
        /\ UNCHANGED <<currentConversationId, conversationConfig, isCreating, bridgeVars,
                       backend, opsIssued, deleted, noopCalls>>

\* the store's createConversation; by names the caller: the host, or the
\* createNewConversation of the hooks, which refreshes afterwards
Store_createConversation(title, by) ==
    IF StoreConfigured(conversationConfig)
    THEN /\ opsIssued + (IF by = "createNewConversation" THEN 2 ELSE 1)
              <= MaxRequests
         /\ reqs' = reqs \cup {Request("create", by, "", title, <<>>)}
         /\ opsIssued' = opsIssued + 1
         /\ UNCHANGED <<state, conversationConfig, isCreating, bridgeVars, backend, lastOp,
                        deleted, noopCalls>>
    ELSE NoopCall(by, <<>>)

createConversation(title) == Store_createConversation(title, "createConversation")

\* use-copilot-conversation.ts createNewConversation, lines 128-134
createNewConversation(title) ==
    IF isEnabled(conversationConfig)
    THEN Store_createConversation(title, "createNewConversation")
    ELSE NoopCall("createNewConversation", <<"">>)

CreateRespond(r, outcome, key, newId) ==
    LET settle == ServiceSettle("create", outcome)
        body == createConversation_body(r.arg)
        value == << createConversation_result(CreateResult(key, newId)) >>
        refreshes == settle = "resolved" /\ r.by = "createNewConversation"
    IN  /\ r \in reqs
        /\ r.kind = "create"
        /\ newId \notin BackendIds(backend)
        /\ backend' = IF outcome = "ok" THEN BackendCreate(backend, newId, body)
                      ELSE backend
        /\ stored' = IF outcome = "ok" THEN (newId :> <<>>) @@ stored ELSE stored
        /\ conversations' = IF settle = "resolved"
                            THEN createConversation_list(conversations, newId, body)
                            ELSE conversations
        \* createNewConversation: await refreshConversations()
        /\ isLoading' = IF refreshes THEN TRUE ELSE isLoading
        /\ reqs' = (reqs \ {r}) \cup
                   (IF refreshes
                    THEN { [ kind |-> "list", seq |-> opsIssued + 1, by |-> r.by,
                             id |-> "", arg |-> <<>>, snap |-> backend',
                             carry |-> value, after |-> deleted ] }
                    ELSE {})
        /\ opsIssued' = IF refreshes THEN opsIssued + 1 ELSE opsIssued
        \* the store's createConversation has returned; createNewConversation
        \* returns after its refresh
        /\ lastOp' = Settled(IF refreshes THEN "createConversation" ELSE r.by,
                             settle,
                             IF settle = "resolved" THEN value ELSE <<>>,
                             outcome, {})
        /\ UNCHANGED <<currentConversationId, error, initialized,
                       conversationConfig, isCreating, autoSaveMessages, messages, loads,
                       issued, hookLoads, saveLog, saves, appendLog, calls,
                       applied, lastSave, deleted, noopCalls>>

\* the store's deleteConversation
Store_deleteConversation(id, by) ==
    IF StoreConfigured(conversationConfig)
    THEN /\ opsIssued < MaxRequests
         /\ reqs' = reqs \cup {Request("delete", by, id, <<>>, <<>>)}
         /\ opsIssued' = opsIssued + 1
         /\ UNCHANGED <<state, conversationConfig, isCreating, bridgeVars, backend, lastOp,
                        deleted, noopCalls>>
    ELSE NoopCall(by, <<>>)

deleteConversation(id) == Store_deleteConversation(id, "deleteConversation")

\* use-copilot-conversation.ts removeConversation, lines 136-141
removeConversation(id) ==
    IF isEnabled(conversationConfig)
    THEN Store_deleteConversation(id, "removeConversation")
    ELSE NoopCall("removeConversation", <<>>)

DeleteRespond(r, outcome) ==
    LET settle == ServiceSettle("delete", outcome)
    IN  /\ r \in reqs
        /\ r.kind = "delete"
        /\ reqs' = reqs \ {r}
        /\ backend' = IF outcome = "ok" THEN BackendDelete(backend, r.id)
                      ELSE backend
        /\ deleted' = IF outcome = "ok" THEN deleted \cup {r.id} ELSE deleted
        /\ conversations' = IF settle = "resolved"
                            THEN deleteConversation_list(conversations, r.id)
                            ELSE conversations
        /\ lastOp' = Settled(r.by, settle, <<>>, outcome, {})
        /\ UNCHANGED <<currentConversationId, isLoading, error, initialized,
                       conversationConfig, isCreating, bridgeVars, opsIssued, noopCalls>>

\* ConversationService.updateConversation, called by the host on the
\* service (the store has no update operation)
updateConversation(id, updates) ==
    /\ StoreConfigured(conversationConfig)
    /\ opsIssued < MaxRequests
    /\ reqs' = reqs \cup {Request("update", "updateConversation", id,
                                updates.title, <<>>)}
    /\ opsIssued' = opsIssued + 1
    /\ UNCHANGED <<state, conversationConfig, isCreating, bridgeVars, backend, lastOp,
                   deleted, noopCalls>>

UpdateRespond(r, outcome) ==
    /\ r \in reqs
    /\ r.kind = "update"
    /\ reqs' = reqs \ {r}
    /\ backend' = IF outcome = "ok" THEN BackendUpdate(backend, r.id, r.arg)
                  ELSE backend
    /\ lastOp' = Settled(r.by, ServiceSettle("update", outcome), <<>>, outcome, {})
    /\ UNCHANGED <<state, conversationConfig, isCreating, bridgeVars, opsIssued, deleted,
                   noopCalls>>

\* a plausible slip: an id that is not in the conversation list is refused
setCurrentConversation_id_known(id, convs) ==
    IF id \in {convs[i].id : i \in 1..Len(convs)} THEN id ELSE None

\* setCurrentConversation: the active conversation becomes the argument,
\* whether the list holds it or not
setCurrentConversation_id(id, convs) == id

\* the store's setCurrentConversation, and the reaction of ConversationLoader
\* to the change; the conversation context is mounted only with a
\* configuration
setCurrentConversation(id) ==
    LET next == setCurrentConversation_id(id, conversations)
        eff == ConversationLoader_effect(currentConversationId, next, issued + 1)
    IN  /\ StoreConfigured(conversationConfig)
        /\ issued + Cardinality(eff) <= MaxLoads
        /\ currentConversationId' = next
        /\ loads' = loads \cup eff
        /\ issued' = issued + Cardinality(eff)
        /\ lastOp' = Returned("setCurrentConversation", "resolved", <<id>>)
        /\ UNCHANGED <<conversations, isLoading, error, initialized,
                       conversationConfig, isCreating, autoSaveMessages, messages, stored,
                       hookLoads, saveLog, saves, appendLog, calls, applied,
                       lastSave, backend, reqs, opsIssued, deleted, noopCalls>>

\* switchToConversation with its guard, lines 94-95
Hook_switchToConversation(id) ==
    IF isEnabled(conversationConfig)
    THEN switchToConversation(id) /\ UNCHANGED listVars
    ELSE NoopCall("switchToConversation", <<>>)

\* clearCurrentConversation with its guard, lines 101-102
Hook_clearCurrentConversation ==
    IF isEnabled(conversationConfig)
    THEN clearCurrentConversation /\ UNCHANGED listVars
    ELSE NoopCall("clearCurrentConversation", <<>>)

\* the load of switchToConversation settles, and with it the call
Hook_loadSettles(outcome) ==
    /\ HookLoadRespond(outcome)
    /\ lastOp' = Settled("switchToConversation",
                         loadConversation_settle(ServiceSettle("messages", outcome)),
                         <<>>, outcome, {})
    /\ UNCHANGED <<backend, reqs, opsIssued, deleted, noopCalls>>

\* the queries of useCopilotConversationSearch
Queries == { <<"t", "r">>, <<" ">> }
SortKeys == {"title", "updatedAt"}

Query(op, value) ==
    /\ lastOp' = Returned(op, "resolved", value)
    /\ noopCalls' = IF isEnabled(conversationConfig) THEN noopCalls
                    ELSE noopCalls \cup {op}
    /\ UNCHANGED <<state, conversationConfig, isCreating, bridgeVars, backend, reqs,
                   opsIssued, deleted>>

Hook_searchConversations(query) ==
    Query("searchConversations",
          searchConversations(isEnabled(conversationConfig), conversations, query))

Hook_filterConversations(predicate) ==
    Query("filterConversations",
          filterConversations(isEnabled(conversationConfig), conversations, predicate))

Hook_sortConversations(sortBy, order) ==
    Query("sortConversations",
          sortConversations(isEnabled(conversationConfig), conversations, sortBy, order))

\* the state after construction, but for the configuration and the
\* provider's autoSaveMessages
InitWith(config, autoSaveProp) ==
    /\ conversations = <<>>
    /\ currentConversationId = None
    /\ isLoading = FALSE
    /\ error = None
    /\ initialized = FALSE
    /\ conversationConfig = config
    /\ autoSaveMessages = autoSaveProp
    /\ messages = <<>>
    /\ stored = InitialStored
    /\ loads = {}
    /\ issued = 0
    /\ hookLoads = 0
    /\ saveLog = <<>>
    /\ saves = {}
    /\ appendLog = <<>>
    /\ calls = 0
    /\ applied = [seq |-> 0, id |-> None, newest |-> 0, newestId |-> None]
    /\ lastSave = [outcome |-> "none", settle |-> "none"]
    /\ backend = InitialBackend
    /\ reqs = {}
    /\ opsIssued = 0
    /\ lastOp = NoOp
    /\ deleted = {}
    /\ noopCalls = {}
    /\ isCreating = FALSE

(* -------- the hooks without a configuration (graceful no-op mode) ------- *)
InitNoConfig == InitWith(NoConfig, FALSE)

NextNoConfig ==
    \/ AutoLoad
    \/ refresh
    \/ loadConversations
    \/ \E title \in Titles : createNewConversation(title)
    \/ \E id \in ConvIds : removeConversation(id)
    \/ \E id \in ConvIds : Hook_switchToConversation(id)
    \/ Hook_clearCurrentConversation
    \/ \E query \in Queries : Hook_searchConversations(query)
    \/ \E predicate \in Predicates : Hook_filterConversations(predicate)
    \/ \E sortBy \in SortKeys, order \in {"asc", "desc"} :
          Hook_sortConversations(sortBy, order)

SpecNoConfig == InitNoConfig /\ [][NextNoConfig]_vars

(* ------------- the conversation list: load, create, delete, update ------ *)
\* the state in which the host has made A the active conversation and its
\* messages have been loaded into the live list
InitListActive ==
    /\ conversations = <<>>
    /\ currentConversationId = "A"
    /\ isLoading = FALSE
    /\ error = None
    /\ initialized = FALSE
    /\ conversationConfig = [autoSave |-> "true"]
    /\ autoSaveMessages = FALSE
    /\ messages = convertApiMessagesToCopilotMessages(InitialStored["A"])
    /\ stored = InitialStored
    /\ loads = {}
    /\ issued = 1
    /\ hookLoads = 0
    /\ saveLog = <<>>
    /\ saves = {}
    /\ appendLog = <<>>
    /\ calls = 0
    /\ applied = [seq |-> 1, id |-> "A", newest |-> 1, newestId |-> "A"]
    /\ lastSave = [outcome |-> "none", settle |-> "none"]
    /\ backend = InitialBackend
    /\ reqs = {}
    /\ opsIssued = 0
    /\ lastOp = Returned("setCurrentConversation", "resolved", <<"A">>)
    /\ deleted = {}
    /\ noopCalls = {}
    /\ isCreating = FALSE

InitList == InitWith([autoSave |-> "true"], FALSE) \/ InitListActive

NextList ==
    \/ AutoLoad
    \/ refresh
    \/ loadConversations
    \/ \E r \in reqs, outcome \in {"ok", "transport", "non2xx"} :
          \E body \in ListBodies(r) : ListRespond(r, outcome, body)
    \/ \E title \in Titles : createConversation(title)
    \/ \E title \in Titles : createNewConversation(title)
    \/ \E r \in reqs, outcome \in {"ok", "transport", "non2xx"} :
          \E key \in CreateKeys, newId \in NewIds :
             CreateRespond(r, outcome, key, newId)
    \/ \E id \in ConvIds : deleteConversation(id)
    \/ \E id \in ConvIds : removeConversation(id)
    \/ \E r \in reqs, outcome \in {"ok", "transport", "non2xx"} :
          DeleteRespond(r, outcome)
    \/ \E id \in ConvIds : updateConversation(id, [title |-> <<"R", "i", "o">>])
    \/ \E r \in reqs, outcome \in {"ok", "transport", "non2xx"} :
          UpdateRespond(r, outcome)

SpecList == InitList /\ [][NextList]_vars

(* ------- the active conversation: switch, load, and the list loads ------ *)
InitSwitch == InitWith([autoSave |-> "true"], FALSE)

NextSwitch ==
    \/ AutoLoad
    \/ refresh
    \/ \E r \in reqs, outcome \in {"ok", "transport", "non2xx"} :
          \E body \in ListBodies(r) : ListRespond(r, outcome, body)
    \/ \E id \in DOMAIN stored \cup {None} : setCurrentConversation(id)
    \/ \E id \in ConvIds : Hook_switchToConversation(id)
    \/ Hook_clearCurrentConversation
    \/ \E outcome \in {"ok", "fail"} : Hook_loadSettles(outcome)
    \/ (\E r \in loads, outcome \in {"ok", "fail"} : LoadRespond(r, outcome))
          /\ UNCHANGED listVars

SpecSwitch == InitSwitch /\ [][NextSwitch]_vars

(* ---- the session lifecycle: loads, creates, deletes, switches, saves ---- *)
InitLifecycle == InitWith([autoSave |-> "true"], TRUE)

NextLifecycle ==
    \/ AutoLoad
    \/ refresh
    \/ \E r \in reqs, outcome \in {"ok", "non2xx"} :
          \E body \in ListBodies(r) : ListRespond(r, outcome, body)
    \/ createConversation(<<>>)
    \/ \E r \in reqs, outcome \in {"ok", "non2xx"} :
          CreateRespond(r, outcome, "id", "N")
    \/ deleteConversation("A")
    \/ \E r \in reqs, outcome \in {"ok", "non2xx"} : DeleteRespond(r, outcome)
    \/ Hook_switchToConversation("A")
    \/ \E outcome \in {"ok", "fail"} : Hook_loadSettles(outcome)
    \/ (\E r \in loads, outcome \in {"ok", "fail"} : LoadRespond(r, outcome))
          /\ UNCHANGED listVars
    \/ AppendMessage(ChatMessage(Len(appendLog) + 1)) /\ UNCHANGED listVars
    \/ (\E n \in saves, outcome \in {"ok", "non2xx"} :
            SaveRespond(n, outcome)) /\ UNCHANGED listVars

SpecLifecycle == InitLifecycle /\ [][NextLifecycle]_vars

(* ------- the conversation list against any response of the backend ------ *)
\* a response of the list endpoint in which a conversation appears twice (a
\* join or a page boundary on the server repeats a row)
RepeatedBody(convs) ==
    IF convs = <<>> THEN ListBody(<<>>, TRUE)
    ELSE ListBody(<<convs[1]>> \o convs, TRUE)

AnyListBodies(r) == ListBodies(r) \cup {RepeatedBody(backend)}

InitAnyList == InitWith([autoSave |-> "true"], FALSE)

NextAnyList ==
    \/ AutoLoad
    \/ refresh
    \/ \E r \in reqs, outcome \in {"ok", "non2xx"} :
          \E body \in AnyListBodies(r) : ListRespond(r, outcome, body)
    \/ \E title \in Titles : createNewConversation(title)
    \/ \E r \in reqs, outcome \in {"ok", "non2xx"} :
          \E key \in CreateKeys, newId \in NewIds :
             CreateRespond(r, outcome, key, newId)
    \/ \E id \in ConvIds : removeConversation(id)
    \/ \E r \in reqs, outcome \in {"ok", "non2xx"} : DeleteRespond(r, outcome)

SpecAnyList == InitAnyList /\ [][NextAnyList]_vars

(* ------------------ the message codec: encode, store, decode ----------- *)
\* the members of MessageRole; the codec names User, Assistant and System
\* and has a default branch for the others
HostRoles == {"user", "assistant", "system", "tool", "developer"}

\* the host-message kinds the codec supports
SupportedKinds == {"text", "action", "result", "agent_state", "image"}

\* host messages of every supported kind; an action or a result message
\* has no role of its own (getMessageRole answers Assistant for it)
CodecMessages ==
    { HostOther(<<"m", 1>>, k, r, d) :
        k \in {"text", "agent_state", "image"}, r \in HostRoles,
        d \in { <<"hi">>, <<"Action: ", "x">>, <<>> } }
    \cup
    { HostOther(<<"m", 1>>, k, "assistant", d) :
        k \in {"action", "result"}, d \in { <<"hi">>, <<>> } }

\* the role of a host message
RoleOf(m) == getMessageRole(m)

\* the live list holds one message m, A is the active conversation
InitCodec ==
    \E m \in CodecMessages :
       /\ conversations = <<>>
       /\ currentConversationId = "A"
       /\ isLoading = FALSE
       /\ error = None
       /\ initialized = FALSE
       /\ conversationConfig = [autoSave |-> "true"]
       /\ autoSaveMessages = FALSE
       /\ messages = <<m>>
       /\ stored = InitialStored
       /\ loads = {}
       /\ issued = 1
       /\ hookLoads = 0
       /\ saveLog = <<>>
       /\ saves = {}
       /\ appendLog = <<>>
       /\ calls = 0
       /\ applied = [seq |-> 1, id |-> "A", newest |-> 1, newestId |-> "A"]
       /\ lastSave = [outcome |-> "none", settle |-> "none"]
       /\ backend = InitialBackend
       /\ reqs = {}
       /\ opsIssued = 0
       /\ lastOp = NoOp
       /\ deleted = {}
       /\ noopCalls = {}
       /\ isCreating = FALSE

\* the backend persists the body of save request n under the id that the
\* client put into messageMetadata.messageId
SaveRespondKeepingId(n) ==
    /\ n \in saves
    /\ saveLog[n].request.path \in DOMAIN stored
    /\ saves' = saves \ {n}
    /\ stored' = [stored EXCEPT ![saveLog[n].request.path] =
                    Append(@, [ Persisted(saveLog[n].request.body,
                                          saveLog[n].request.path, Len(@) + 1)
                                EXCEPT !.id = saveLog[n].request.body
                                                .messageMetadata[1].messageId ])]
    /\ lastSave' = [outcome |-> "ok", settle |-> saveMessage_settle("ok").settle]
    /\ UNCHANGED <<conversations, currentConversationId, isLoading, error,
                   initialized, conversationConfig, isCreating, autoSaveMessages, messages,
                   loads, issued, hookLoads, saveLog, appendLog, calls, applied>>

\* conversation-service.ts getConversationMessages, answered 200 with what
\* the backend holds for the conversation: the decoded messages are returned
getConversationMessages(conversationId) ==
    /\ saveLog # <<>>
    /\ saves = {}
    /\ lastOp = NoOp
    /\ lastOp' = Returned("getConversationMessages", "resolved",
                          convertApiMessagesToCopilotMessages(stored[conversationId]))
    /\ UNCHANGED <<state, conversationConfig, isCreating, bridgeVars, backend, reqs,
                   opsIssued, deleted, noopCalls>>

NextCodec ==
    \/ CallSaveMessage(messages[1]) /\ UNCHANGED listVars
    \/ (\E n \in saves : SaveRespond(n, "ok")) /\ UNCHANGED listVars
    \/ (\E n \in saves : SaveRespondKeepingId(n)) /\ UNCHANGED listVars
    \/ getConversationMessages(currentConversationId)

SpecCodec == InitCodec /\ [][NextCodec]_vars

(* ---------------------- the role mappings of the codec ----------------- *)
UpperChar(c) ==
    IF \E i \in 1..26 : LowerLetters[i] = c
    THEN UpperLetters[CHOOSE i \in 1..26 : LowerLetters[i] = c]
    ELSE c

\* the spellings of a lower-case word in every mix of upper and lower case
CaseVariants(word) ==
    { [i \in 1..Len(word) |-> IF i \in U THEN UpperChar(word[i]) ELSE word[i]] :
        U \in SUBSET (1..Len(word)) }

\* role texts a backend may put into a message: the three roles in any
\* spelling, and texts that are none of them
WireRoles ==
    CaseVariants(W_user) \cup CaseVariants(W_assistant) \cup CaseVariants(W_system)
    \cup { <<>>, <<"t", "o", "o", "l">>, <<"u", "s", "e", "r", "s">>,
           <<"u", "s", "e">>, <<" ", "u", "s", "e", "r">>,
           <<"A", "d", "m", "i", "n">> }

\* the backend holds one message with role w for A; the live list holds one
\* text message with host role h
InitRoles ==
    \E w \in WireRoles, h \in HostRoles :
       /\ conversations = <<>>
       /\ currentConversationId = "A"
       /\ isLoading = FALSE
       /\ error = None
       /\ initialized = FALSE
       /\ conversationConfig = [autoSave |-> "true"]
       /\ autoSaveMessages = FALSE
       /\ messages = << HostText(<<"m", 1>>, h, <<"hi">>) >>
       /\ stored = [ c \in ConvIds |->
                       << [ InitialStored[c][1] EXCEPT !.role = w ] >> ]
       /\ loads = {}
       /\ issued = 1
       /\ hookLoads = 0
       /\ saveLog = <<>>
       /\ saves = {}
       /\ appendLog = <<>>
       /\ calls = 0
       /\ applied = [seq |-> 1, id |-> "A", newest |-> 1, newestId |-> "A"]
       /\ lastSave = [outcome |-> "none", settle |-> "none"]
       /\ backend = InitialBackend
       /\ reqs = {}
       /\ opsIssued = 0
       /\ lastOp = NoOp
       /\ deleted = {}
       /\ noopCalls = {}
       /\ isCreating = FALSE

\* the decoder maps the role of the stored message (line 203)
DecodeRole ==
    /\ lastOp.op # "mapApiRoleToCopilotRole"
    /\ lastOp' = Returned("mapApiRoleToCopilotRole", "resolved",
                          << mapApiRoleToCopilotRole(stored["A"][1].role) >>)
    /\ UNCHANGED <<state, conversationConfig, isCreating, bridgeVars, backend, reqs,
                   opsIssued, deleted, noopCalls>>

\* the encoder maps the role of the live message (line 236)
EncodeRole ==
    /\ lastOp.op # "mapCopilotRoleToApiRole"
    /\ lastOp' = Returned("mapCopilotRoleToApiRole", "resolved",
                          << mapCopilotRoleToApiRole(getMessageRole(messages[1])) >>)
    /\ UNCHANGED <<state, conversationConfig, isCreating, bridgeVars, backend, reqs,
                   opsIssued, deleted, noopCalls>>

NextRoles == DecodeRole \/ EncodeRole

SpecRoles == InitRoles /\ [][NextRoles]_vars

(* ------------------- the encoder on every message kind ----------------- *)
\* kinds of Message for which every type predicate the codec asks answers
\* false
UnknownKinds == {"meta_event", "future"}

EncoderMessages ==
    { HostOther(<<"m", 1>>, k, r, d) :
        k \in SupportedKinds \cup UnknownKinds, r \in HostRoles,
        d \in { <<"hi">>, <<>>, <<"Unknown message type">> } }

InitEncoder ==
    \E m \in EncoderMessages :
       /\ conversations = <<>>
       /\ currentConversationId = "A"
       /\ isLoading = FALSE
       /\ error = None
       /\ initialized = FALSE
       /\ conversationConfig = [autoSave |-> "true"]
       /\ autoSaveMessages = FALSE
       /\ messages = <<m>>
       /\ stored = InitialStored
       /\ loads = {}
       /\ issued = 1
       /\ hookLoads = 0
       /\ saveLog = <<>>
       /\ saves = {}
       /\ appendLog = <<>>
       /\ calls = 0
       /\ applied = [seq |-> 1, id |-> "A", newest |-> 1, newestId |-> "A"]
       /\ lastSave = [outcome |-> "none", settle |-> "none"]
       /\ backend = InitialBackend
       /\ reqs = {}
       /\ opsIssued = 0
       /\ lastOp = NoOp
       /\ deleted = {}
       /\ noopCalls = {}
       /\ isCreating = FALSE

\* a call of a codec function on a Message returns, or throws when the
\* value is no Message
CodecCall(op, message, result) ==
    /\ lastOp.op # op
    /\ lastOp' = IF Encodable(message) THEN Returned(op, "resolved", <<result>>)
                  ELSE Returned(op, "rejected", <<>>)
    /\ UNCHANGED <<state, conversationConfig, isCreating, bridgeVars, backend, reqs,
                   opsIssued, deleted, noopCalls>>

\* the encoder extracts the content of the live message (line 237)
ExtractContent ==
    CodecCall("extractMessageContent", messages[1],
              extractMessageContent(messages[1]))

\* the encoder tags the live message with its kind (line 239)
GetType ==
    CodecCall("getMessageType", messages[1], << getMessageType(messages[1]) >>)

NextEncoder == ExtractContent \/ GetType

SpecEncoder == InitEncoder /\ [][NextEncoder]_vars

(* ------------- ConversationService: configuration and requests --------- *)
\* calls of the service's operations in one behaviour
MaxServiceCalls == 2

EndpointKeys == {"conversations", "messages", "create", "delete"}

\* conversation-service.ts constructor, lines 17-22: the default templates
DefaultEndpoints ==
    [ conversations |-> "/conversations", messages |-> "/messages",
      create |-> "/conversations", delete |-> "/conversations" ]

\* the templates of a differently shaped backend
CustomEndpoints ==
    [ conversations |-> "/v2/threads", messages |-> "/v2/entries",
      create |-> "/v2/threads/new", delete |-> "/v2/threads/remove" ]

\* ConversationConfig.endpoints: an object that gives any subset of the
\* four templates
EndpointOverrides ==
    { [k \in K |-> CustomEndpoints[k]] : K \in SUBSET EndpointKeys }

\* ConversationConfig.headers
HeaderConfigs ==
    { <<>>,
      [k \in {"Authorization"} |-> "Bearer t"],
      [k \in {"Authorization", "Content-Type"} |->
          IF k = "Authorization" THEN "Bearer t" ELSE "text/plain"] }

\* the configurations handed to the constructor; an optional key that is
\* not given is <<>> (autoSave: "absent"); autoSave may also be given with
\* the value undefined
ServiceConfigs ==
    { [autoSave |-> a, endpoints |-> e, headers |-> h] :
        a \in {"true", "false", "absent", "undefined"},
        e \in {<<>>} \cup { <<o>> : o \in EndpointOverrides },
        h \in HeaderConfigs }

\* conversation-service.ts constructor, lines 15-24:
\* { autoSave: true, endpoints: {...defaults}, ...config }; a key given in
\* config replaces the default as a whole
ServiceEndpoints(config) ==
    IF config.endpoints = <<>> THEN DefaultEndpoints ELSE config.endpoints[1]

\* `${this.config.endpoints!.key}`: a property the object does not have
\* reads as undefined
Template(config, key) ==
    IF key \in DOMAIN ServiceEndpoints(config)
    THEN ServiceEndpoints(config)[key]
    ELSE "undefined"

ServiceOps ==
    { "getConversations", "getConversationMessages", "createConversation",
      "deleteConversation", "saveMessage", "updateConversation" }

\* the template each operation reads (lines 33, 61, 89, 121, 152, 178)
EndpointOf(op) ==
    CASE op = "createConversation" -> "create"
      [] op = "deleteConversation" -> "delete"
      [] OTHER -> "conversations"

\* the path of the request, after apiBaseUrl
RequestPath(op, config, id) ==
    LET t == Template(config, EndpointOf(op))
    IN  CASE op = "getConversations" -> <<t, "?userId=", UserId>>
          [] op = "getConversationMessages" -> <<t, "/", id, "/messages">>
          [] op = "createConversation" -> <<t>>
          [] op = "deleteConversation" -> <<t, "/", id>>
          [] op = "saveMessage" -> <<t, "/", id, "/messages">>
          [] OTHER -> <<t, "/", id>>

RequestMethod(op) ==
    CASE op \in {"getConversations", "getConversationMessages"} -> "GET"
      [] op \in {"createConversation", "saveMessage"} -> "POST"
      [] op = "deleteConversation" -> "DELETE"
      [] OTHER -> "PATCH"

\* a plausible slip: the configured headers are left out
fetch_headers_contentTypeOnly(config) ==
    [k \in {"Content-Type"} |-> "application/json"]

\* { 'Content-Type': 'application/json', ...this.config.headers }
fetch_headers(config) ==
    [ k \in {"Content-Type"} \cup DOMAIN config.headers |->
        IF k \in DOMAIN config.headers THEN config.headers[k]
        ELSE "application/json" ]

\* a response, or the lack of one
Response(kind, status) == [kind |-> kind, status |-> status]
Responses ==
    { Response("ok", 200), Response("transport", 0),
      Response("non2xx", 404), Response("non2xx", 500) }

\* response.statusText
StatusText(status) ==
    CASE status = 404 -> "Not Found"
      [] status = 500 -> "Internal Server Error"
      [] OTHER -> "OK"

\* the text before response.statusText in each operation's Error
FailureText(op) ==
    CASE op = "getConversations" -> "Failed to fetch conversations: "
      [] op = "getConversationMessages" -> "Failed to fetch conversation messages: "
      [] op = "createConversation" -> "Failed to create conversation: "
      [] op = "deleteConversation" -> "Failed to delete conversation: "
      [] op = "saveMessage" -> "Failed to save message: "
      [] OTHER -> "Failed to update conversation: "

\* what the try block throws: fetch rejects with a TypeError on a transport
\* failure; on !response.ok the operation throws
\* new Error(`Failed to ...: ${response.statusText}`)
ThrownError(op, response) ==
    IF response.kind = "transport"
    THEN [name |-> "TypeError", message |-> <<"Failed to fetch">>]
    ELSE [name |-> "Error",
          message |-> <<FailureText(op), StatusText(response.status)>>]

\* the names under which ServiceSettle knows the operations
ServiceKind(op) ==
    CASE op = "getConversations" -> "list"
      [] op = "createConversation" -> "create"
      [] op = "deleteConversation" -> "delete"
      [] op = "updateConversation" -> "update"
      [] OTHER -> "messages"

\* how a call settles once its request is answered
ServiceCallSettle(op, response) ==
    IF op = "saveMessage" THEN saveMessage_settle(response.kind).settle
    ELSE ServiceSettle(ServiceKind(op), response.kind)

\* a plausible slip: a request that failed is sent once more
fetch_again_onFailure(r, response) ==
    IF response.kind # "ok" /\ r.attempt = 1
    THEN { [r EXCEPT !.attempt = 2] } ELSE {}

\* no operation sends its request again
fetch_again(r, response) == {}

InitService ==
    \E config \in ServiceConfigs :
       /\ conversations = <<>>
       /\ currentConversationId = None
       /\ isLoading = FALSE
       /\ error = None
       /\ initialized = FALSE
       /\ conversationConfig = config
       /\ autoSaveMessages = FALSE
       /\ messages = <<>>
       /\ stored = InitialStored
       /\ loads = {}
       /\ issued = 0
       /\ hookLoads = 0
       /\ saveLog = <<>>
       /\ saves = {}
       /\ appendLog = <<>>
       /\ calls = 0
       /\ applied = [seq |-> 0, id |-> None, newest |-> 0, newestId |-> None]
       /\ lastSave = [outcome |-> "none", settle |-> "none"]
       /\ backend = InitialBackend
       /\ reqs = {}
       /\ opsIssued = 0
       /\ lastOp = Settled("none", "none", <<>>, Response("none", 0), {})
       /\ deleted = {}
       /\ noopCalls = {}
       /\ isCreating = FALSE

\* a host calls operation op of the service (for conversation A): the
\* operation sends its request, or, saveMessage with autoSave off, returns
ServiceCall(op) ==
    LET skips == op = "saveMessage"
                 /\ saveMessage_returnsEarly(ServiceAutoSave(conversationConfig))
    IN  /\ calls < MaxServiceCalls
        /\ calls' = calls + 1
        /\ reqs' = IF skips THEN reqs
                    ELSE reqs \cup
                         { [ call |-> calls + 1, op |-> op, attempt |-> 1,
                             method |-> RequestMethod(op),
                             path |-> RequestPath(op, conversationConfig, "A"),
                             headers |-> fetch_headers(conversationConfig) ] }
        /\ opsIssued' = IF skips THEN opsIssued ELSE opsIssued + 1
        /\ lastOp' = IF skips
                      THEN Settled(op, "resolved", <<>>, Response("norequest", 0), {})
                      ELSE lastOp
        /\ UNCHANGED <<state, conversationConfig, isCreating, autoSaveMessages, messages,
                       stored, loads, issued, hookLoads, saveLog, saves,
                       appendLog, applied, lastSave, backend, deleted, noopCalls>>

\* request r is answered, or fails in transport; the call settles
ServiceRespond(r, response) ==
    LET settle == ServiceCallSettle(r.op, response)
    IN  /\ r \in reqs
        /\ reqs' = (reqs \ {r}) \cup fetch_again(r, response)
        /\ opsIssued' = opsIssued + Cardinality(fetch_again(r, response))
        /\ lastOp' = Settled(r.op, settle,
                             IF settle = "rejected"
                             THEN << ThrownError(r.op, response) >> ELSE <<>>,
                             response, {})
        /\ UNCHANGED <<state, conversationConfig, isCreating, bridgeVars, backend, deleted,
                       noopCalls>>

NextService ==
    \/ \E op \in ServiceOps : ServiceCall(op)
    \/ \E r \in reqs, response \in Responses : ServiceRespond(r, response)

SpecService == InitService /\ [][NextService]_vars

(* --------------------- searching the conversation list ----------------- *)
\* conversations a backend holds: two without a preview, one whose preview
\* but not its title holds "TRIP", one whose title holds "trip" inside a word
SearchPool ==
    { Conv("A", <<"T", "r", "i", "p", " ", "P", "l", "a", "n", "n", "i", "n", "g">>, <<>>, 1, 3, 2),
      Conv("B", <<"B", "u", "d", "g", "e", "t", " ", "R", "e", "v", "i", "e", "w">>, <<>>, 2, 2, 1),
      Conv("C", <<"N", "o", "t", "e", "s">>, << <<"m", "y", " ", "T", "R", "I", "P", " ", "t", "o", " ", "R", "i", "o">> >>, 3, 4, 4),
      Conv("D", <<"S", "t", "r", "i", "p", "t", "e", "a", "s", "e">>, << <<>> >>, 4, 5, 1) }

\* the lists of up to three of them, in any order
SearchLists ==
    { <<>> } \cup { <<a>> : a \in SearchPool }
    \cup { l \in SearchPool \X SearchPool : l[1] # l[2] }
    \cup { l \in SearchPool \X SearchPool \X SearchPool :
             l[1] # l[2] /\ l[1] # l[3] /\ l[2] # l[3] }

\* what a user types into the search box
SearchQueries ==
    { <<"t", "r", "i", "p">>, <<"T", "R", "I", "P">>, <<"T", "r", "i", "p">>, <<>>, <<" ">>, <<" ", "\t">>, <<"r", "e", "v">>, <<"z", "z", "z">>, <<" ", "t", "r", "i", "p">> }

\* the conversation list has been loaded
InitSearch ==
    \E list \in SearchLists :
       /\ conversations = list
       /\ currentConversationId = None
       /\ isLoading = FALSE
       /\ error = None
       /\ initialized = TRUE
       /\ conversationConfig = [autoSave |-> "true"]
       /\ autoSaveMessages = FALSE
       /\ messages = <<>>
       /\ stored = InitialStored
       /\ loads = {}
       /\ issued = 0
       /\ hookLoads = 0
       /\ saveLog = <<>>
       /\ saves = {}
       /\ appendLog = <<>>
       /\ calls = 0
       /\ applied = [seq |-> 0, id |-> None, newest |-> 0, newestId |-> None]
       /\ lastSave = [outcome |-> "none", settle |-> "none"]
       /\ backend = list
       /\ reqs = {}
       /\ opsIssued = 1
       /\ lastOp = Settled("autoLoad", "resolved", <<>>, "ok", {})
       /\ deleted = {}
       /\ noopCalls = {}
       /\ isCreating = FALSE

NextSearch == \E query \in SearchQueries : Hook_searchConversations(query)

SpecSearch == InitSearch /\ [][NextSearch]_vars

(* -------------- the decoder: wire messages to host messages ------------ *)
\* the longest message list the backend answers with
MaxWireLen == 2

\* what messageMetadata of a wire message can be: absent, or with a type
\* the encoder writes, or with a type it never writes
WireMetadata ==
    { <<>> } \cup
    { << [type |-> ty, messageId |-> <<"m", 1>>] >> :
        ty \in {"text", "action", "result", "custom"} }

\* the roles of wire messages: the three literals, one in capitals, and one
\* that is none of them
DecoderRoles == { W_user, W_assistant, W_system, <<"U", "s", "e", "r">>,
                  <<"b", "o", "t">> }

\* the n-th wire message of conversation A
WireMessages(n) ==
    { [ id |-> <<"srv", "A", n>>, conversationId |-> "A", userId |-> UserId,
        role |-> r, content |-> c, messageMetadata |-> md ] :
        r \in DecoderRoles, c \in { <<"hi">>, <<>> }, md \in WireMetadata }

\* the message lists of length 0..MaxWireLen
WireLists ==
    UNION { { l \in [1..n -> UNION { WireMessages(k) : k \in 1..n }] :
                \A k \in 1..n : l[k] \in WireMessages(k) } : n \in 0..MaxWireLen }

\* the backend holds a list of wire messages for conversation A
InitDecoder ==
    \E l \in WireLists :
       /\ conversations = <<>>
       /\ currentConversationId = "A"
       /\ isLoading = FALSE
       /\ error = None
       /\ initialized = FALSE
       /\ conversationConfig = [autoSave |-> "true"]
       /\ autoSaveMessages = FALSE
       /\ messages = <<>>
       /\ stored = [InitialStored EXCEPT !["A"] = l]
       /\ loads = {}
       /\ issued = 1
       /\ hookLoads = 0
       /\ saveLog = <<>>
       /\ saves = {}
       /\ appendLog = <<>>
       /\ calls = 0
       /\ applied = [seq |-> 0, id |-> None, newest |-> 0, newestId |-> None]
       /\ lastSave = [outcome |-> "none", settle |-> "none"]
       /\ backend = InitialBackend
       /\ reqs = {}
       /\ opsIssued = 0
       /\ lastOp = NoOp
       /\ deleted = {}
       /\ noopCalls = {}
       /\ isCreating = FALSE

\* conversation-service.ts getConversationMessages, answered 200 with the
\* list the backend holds: the converted list is returned
DecodeStored(conversationId) ==
    /\ lastOp = NoOp
    /\ lastOp' = Returned("convertApiMessagesToCopilotMessages", "resolved",
                          convertApiMessagesToCopilotMessages(stored[conversationId]))
    /\ UNCHANGED <<state, conversationConfig, isCreating, bridgeVars, backend, reqs,
                   opsIssued, deleted, noopCalls>>

NextDecoder == DecodeStored(currentConversationId)

SpecDecoder == InitDecoder /\ [][NextDecoder]_vars

(* --------- the auto-load of the history hook, the backend failing ------- *)
\* opsIssued counts the list requests up to MaxCounted; from there on it
\* stands for "MaxCounted or more"
MaxCounted == 30

Counted(n) == IF n < MaxCounted THEN n + 1 ELSE MaxCounted

\* use-copilot-conversation.ts useCopilotConversationHistory, lines 58-62:
\* the effect runs whenever isEnabled, initialized, isLoading or
\* loadConversations has changed, and calls loadConversations when the
\* features are enabled, the list was never loaded and no load is running
AutoLoad_effect ==
    /\ isEnabled(conversationConfig)
    /\ ~initialized
    /\ ~isLoading
    /\ isLoading' = TRUE
    /\ reqs' = reqs \cup { [ Request("list", "autoLoad", "", <<>>, <<>>)
                             EXCEPT !.seq = Counted(opsIssued) ] }
    /\ opsIssued' = Counted(opsIssued)
    /\ UNCHANGED <<conversations, currentConversationId, error, initialized,
                   conversationConfig, isCreating, bridgeVars, backend, lastOp, deleted,
                   noopCalls>>

\* the hook mounts with a configuration; no list has been loaded
InitAutoLoad ==
    \E a \in {"true", "false", "absent"} : InitWith([autoSave |-> a], FALSE)

\* every list fetch fails: by a transport failure or a non-2xx response
NextAutoLoad ==
    \/ AutoLoad_effect
    \/ \E r \in reqs, outcome \in {"transport", "non2xx"} :
          \E body \in ListBodies(r) : ListRespond(r, outcome, body)

SpecAutoLoad == InitAutoLoad /\ [][NextAutoLoad]_vars

\* React runs an effect whose dependencies have changed after the render,
\* and a fetch settles
SpecAutoLoadFair ==
    /\ SpecAutoLoad
    /\ WF_vars(AutoLoad_effect)
    /\ WF_vars(\E r \in reqs, outcome \in {"transport", "non2xx"} :
                  \E body \in ListBodies(r) : ListRespond(r, outcome, body))

(* ------------- deleting a conversation, then appending messages -------- *)
\* ConversationList.handleDelete (part_004, lines 631-641): after the user
\* has confirmed, removeConversation is awaited; a failure is logged
handleDelete(conversationId, confirmed) ==
    IF confirmed THEN removeConversation(conversationId)
    ELSE /\ lastOp' = Returned("handleDelete", "resolved", <<>>)
         /\ lastOp' # lastOp
         /\ UNCHANGED <<state, conversationConfig, isCreating, bridgeVars, backend,
                        reqs, opsIssued, deleted, noopCalls>>

\* the list has been loaded and conversation id is active with its messages
\* in the live list, or none is active; the provider's auto-save is on
InitDeleteSave ==
    \E id \in ConvIds \cup {None} :
       /\ conversations = InitialBackend
       /\ currentConversationId = id
       /\ isLoading = FALSE
       /\ error = None
       /\ initialized = TRUE
       /\ conversationConfig = [autoSave |-> "true"]
       /\ autoSaveMessages = TRUE
       /\ messages = IF id = None THEN <<>>
                     ELSE convertApiMessagesToCopilotMessages(InitialStored[id])
       /\ stored = InitialStored
       /\ loads = {}
       /\ issued = IF id = None THEN 0 ELSE 1
       /\ hookLoads = 0
       /\ saveLog = <<>>
       /\ saves = {}
       /\ appendLog = <<>>
       /\ calls = 0
       /\ applied = IF id = None
                    THEN [seq |-> 0, id |-> None, newest |-> 0, newestId |-> None]
                    ELSE [seq |-> 1, id |-> id, newest |-> 1, newestId |-> id]
       /\ lastSave = [outcome |-> "none", settle |-> "none"]
       /\ backend = InitialBackend
       /\ reqs = {}
       /\ opsIssued = 0
       /\ lastOp = NoOp
       /\ deleted = {}
       /\ noopCalls = {}
       /\ isCreating = FALSE

NextDeleteSave ==
    \/ refresh
    \/ \E r \in reqs, outcome \in {"ok", "non2xx"} :
          \E body \in ListBodies(r) : ListRespond(r, outcome, body)
    \/ \E id \in ConvIds, confirmed \in BOOLEAN : handleDelete(id, confirmed)
    \/ \E id \in ConvIds : deleteConversation(id)
    \/ \E r \in reqs, outcome \in {"ok", "transport", "non2xx"} :
          DeleteRespond(r, outcome)
    \/ Hook_clearCurrentConversation
    \/ AppendMessage(ChatMessage(Len(appendLog) + 1)) /\ UNCHANGED listVars
    \* the backend does not accept a message for a conversation it deleted
    \/ (\E n \in saves, outcome \in {"ok", "transport", "non2xx"} :
          /\ saveLog[n].request.path \in deleted => outcome # "ok"
          /\ SaveRespond(n, outcome)) /\ UNCHANGED listVars

SpecDeleteSave == InitDeleteSave /\ [][NextDeleteSave]_vars

(* -------------- ConversationList: the create-new-conversation flow ------ *)
\* a plausible slip: the handler does not look at isCreating
handleCreateNew_returnsEarly_never(creating) == FALSE

\* part_004 line 616: if (isCreating) return;
handleCreateNew_returnsEarly(creating) == creating

\* part_004 lines 626-628: finally { setIsCreating(false) }
handleCreateNew_finally(creating) == FALSE

\* part_004 line 621: if (conversationId); an id the response did not carry
\* is the empty text
handleCreateNew_switches(conversationId) == conversationId # ""

\* the keys under which the create response carries the id, or none of them
FlowCreateKeys == CreateKeys \cup {"none"}

\* part_004 lines 615-620, use-copilot-conversation.ts lines 128-131: the
\* create button is activated; the handler runs up to the create request
handleCreateNew ==
    IF handleCreateNew_returnsEarly(isCreating)
    THEN /\ lastOp' = Returned("handleCreateNew", "resolved", <<>>)
         /\ UNCHANGED <<state, conversationConfig, isCreating, bridgeVars,
                        backend, reqs, opsIssued, deleted, noopCalls>>
    ELSE /\ opsIssued + 2 <= MaxRequests
         /\ isCreating' = TRUE
         /\ reqs' = reqs \cup {Request("create", "handleCreateNew", "", <<>>, <<>>)}
         /\ opsIssued' = opsIssued + 1
         /\ UNCHANGED <<state, conversationConfig, bridgeVars, backend, lastOp,
                        deleted, noopCalls>>

\* use-copilot-conversation.ts lines 131-132, part_004 lines 624-628: the
\* create request of the flow is answered; createNewConversation goes on to
\* refreshConversations, or the failure reaches the handler's catch and
\* finally blocks
handleCreateNew_created(r, outcome, key, newId) ==
    LET settle == ServiceSettle("create", outcome)
        body == createConversation_body(r.arg)
        value == << createConversation_result(CreateResult(key, newId)) >>
    IN  /\ r \in reqs
        /\ r.kind = "create"
        /\ r.by = "handleCreateNew"
        /\ newId \notin BackendIds(backend)
        /\ backend' = IF outcome = "ok" THEN BackendCreate(backend, newId, body)
                      ELSE backend
        /\ stored' = IF outcome = "ok" THEN (newId :> <<>>) @@ stored ELSE stored
        /\ conversations' = IF settle = "resolved"
                            THEN createConversation_list(conversations, newId, body)
                            ELSE conversations
        /\ IF settle = "resolved"
           THEN /\ isLoading' = TRUE
                /\ reqs' = (reqs \ {r}) \cup
                           { [ kind |-> "list", seq |-> opsIssued + 1, by |-> r.by,
                               id |-> "", arg |-> <<>>, snap |-> backend',
                               carry |-> value, after |-> deleted ] }
                /\ opsIssued' = opsIssued + 1
                /\ isCreating' = isCreating
                /\ lastOp' = Settled("createConversation", settle, value, outcome, {})
           ELSE /\ isLoading' = isLoading
                /\ reqs' = reqs \ {r}
                /\ opsIssued' = opsIssued
                /\ isCreating' = handleCreateNew_finally(isCreating)
                /\ lastOp' = Settled("handleCreateNew", "resolved", <<>>, outcome, {})
        /\ UNCHANGED <<currentConversationId, error, initialized,
                       conversationConfig, autoSaveMessages, messages, loads,
                       issued, hookLoads, saveLog, saves, appendLog, calls,
                       applied, lastSave, deleted, noopCalls>>

\* use-copilot-conversation.ts lines 132-133 and 94-98, part_004 lines
\* 620-623: the refresh of the flow completes; createNewConversation returns
\* the id; the handler switches to it when it is not empty (the change of the
\* active id runs the ConversationLoader effect), or ends
handleCreateNew_refreshed(r, outcome, body) ==
    LET settle == ServiceSettle("list", outcome)
        conversationId == r.carry[1]
        switches == handleCreateNew_switches(conversationId)
        eff == ConversationLoader_effect(currentConversationId, conversationId,
                                         issued + 1)
    IN  /\ r \in reqs
        /\ r.kind = "list"
        /\ r.by = "handleCreateNew"
        /\ reqs' = reqs \ {r}
        /\ isLoading' = loadConversations_finally(settle, isLoading)
        /\ conversations' = IF settle = "resolved"
                            THEN getConversations_result(body)
                            ELSE loadConversations_onFailure(conversations)
        /\ initialized' = loadConversations_initialized(settle, initialized)
        /\ error' = IF settle = "resolved" THEN error
                    ELSE "Failed to load conversations"
        /\ IF switches
           THEN /\ hookLoads < MaxHookPending
                /\ issued + Cardinality(eff) <= MaxLoads
                /\ currentConversationId' = conversationId
                /\ hookLoads' = hookLoads + 1
                /\ loads' = loads \cup eff
                /\ issued' = issued + Cardinality(eff)
                /\ isCreating' = isCreating
                /\ lastOp' = Settled("createNewConversation",
                                     loadConversations_settle(settle), r.carry,
                                     outcome, r.after)
           ELSE /\ isCreating' = handleCreateNew_finally(isCreating)
                /\ lastOp' = Settled("handleCreateNew", "resolved", <<>>,
                                     outcome, r.after)
                /\ UNCHANGED <<currentConversationId, hookLoads, loads, issued>>
        /\ UNCHANGED <<conversationConfig, autoSaveMessages, messages, stored,
                       saveLog, saves, appendLog, calls, applied, lastSave,
                       backend, opsIssued, deleted, noopCalls>>

\* use-copilot-conversation.ts line 98, part_004 lines 622-628: the
\* loadConversation of the flow's switch settles; the handler ends
handleCreateNew_switched(outcome) ==
    /\ isCreating
    /\ hookLoads > 0
    /\ hookLoads' = hookLoads - 1
    /\ error' = loadConversation_error(outcome, error)
    /\ isCreating' = handleCreateNew_finally(isCreating)
    /\ lastOp' = Settled("handleCreateNew",
                         loadConversation_settle(ServiceSettle("messages", outcome)),
                         <<>>, outcome, {})
    /\ UNCHANGED <<conversations, currentConversationId, isLoading, initialized,
                   conversationConfig, autoSaveMessages, messages, stored, loads,
                   issued, saveLog, saves, appendLog, calls, applied, lastSave,
                   backend, reqs, opsIssued, deleted, noopCalls>>

InitCreateFlow == InitWith([autoSave |-> "true"], FALSE) \/ InitListActive

NextCreateFlow ==
    \/ AutoLoad
    \/ \E r \in reqs, outcome \in {"ok", "non2xx"} :
          \E body \in ListBodies(r) :
             r.by # "handleCreateNew" /\ ListRespond(r, outcome, body)
    \/ handleCreateNew
    \/ \E r \in reqs, outcome \in {"ok", "transport", "non2xx"} :
          \E key \in FlowCreateKeys, newId \in NewIds :
             handleCreateNew_created(r, outcome, key, newId)
    \/ \E r \in reqs, outcome \in {"ok", "non2xx"} :
          \E body \in ListBodies(r) : handleCreateNew_refreshed(r, outcome, body)
    \/ \E outcome \in {"ok", "fail"} : handleCreateNew_switched(outcome)
    \/ (\E r \in loads, outcome \in {"ok", "fail"} : LoadRespond(r, outcome))
          /\ UNCHANGED listVars

SpecCreateFlow == InitCreateFlow /\ [][NextCreateFlow]_vars

(* ------------------------------ properties ---------------------------- *)
\* auto-save is enabled at both gates: the provider's autoSaveMessages and
\* the service's autoSave
AutoSaveOn == autoSaveMessages /\ Truthy(ServiceAutoSave(conversationConfig))

IsEffectSave(e) == e.by = "effect"
IsActiveAppend(a) == a.conv # None

\* C1 -- Stale-response discard: once the messages of a newer load request
\* have been written to the live list, the response of an older request for
\* another conversation is never written to it.
C1_StaleResponseDiscarded ==
    [][ applied' # applied =>
          ~(applied.newest > applied'.seq /\ applied.newestId # applied'.id) ]_vars

\* C2 -- Conversation-switch replace wins: when the load for the latest
\* switch completes successfully while its conversation is still the active
\* one, the live list becomes exactly the decoded messages of that
\* conversation, whatever it held (messages appended meanwhile included).
C2_SwitchReplaceWins ==
    [][ \A r \in loads :
          ( /\ r \notin loads'
            /\ applied' # applied
            /\ applied'.seq = r.seq
            /\ r.seq = issued
            /\ r.id = currentConversationId )
          => messages' = convertApiMessagesToCopilotMessages(stored[r.id]) ]_vars

\* C2 witness: the latest load was applied over a message that had been
\* appended while that load was in flight.
C2_Witness ==
    /\ applied.seq = issued
    /\ applied.seq > 0
    /\ applied.id = currentConversationId
    /\ \E i \in 1..Len(appendLog) : applied.seq \in appendLog[i].inFlight
    /\ messages = convertApiMessagesToCopilotMessages(stored[applied.id])

\* C3 -- A change of the active conversation from a defined id to undefined
\* empties the live list, and while no conversation is active the list
\* changes only by the host's own appends (no load refills it).
C3_ClearEmptiesLiveList ==
    [][ /\ (currentConversationId # None /\ currentConversationId' = None)
             => messages' = <<>>
        /\ (currentConversationId = None /\ currentConversationId' = None)
             => (messages' = messages \/ appendLog' # appendLog) ]_vars

\* C4 -- No feedback loop: writing the loaded messages of a conversation to
\* the live list issues no save request.
C4_NoSaveOnReplace ==
    [][ applied' # applied => saveLog' = saveLog ]_vars

\* C5 -- With auto-save enabled, the save requests issued by the auto-save
\* effect are exactly the appends made while a conversation was active: one
\* request per append, in order, for the appended message and tagged with
\* the conversation that was active at the append.
C5_ExactlyOneSavePerAppend ==
    AutoSaveOn =>
      LET eff == SelectSeq(saveLog, IsEffectSave)
          app == SelectSeq(appendLog, IsActiveAppend)
      IN  /\ Len(eff) = Len(app)
          /\ \A i \in 1..Len(eff) :
               /\ i <= Len(app)
               /\ eff[i].request.path = app[i].conv
               /\ eff[i].request.body.messageMetadata[1].messageId = app[i].messageId

\* C6 -- With autoSave=false no save request is ever issued.
C6_AutoSaveOffNoRequest ==
    conversationConfig.autoSave = "false" => saveLog = <<>>

\* C6 witness: with autoSave=false the service's saveMessage was reached, by
\* the effect after an append in an active conversation and after a load
\* was applied, and by a direct call.
C6_Witness ==
    /\ conversationConfig.autoSave = "false"
    /\ autoSaveMessages
    /\ \E i \in 1..Len(appendLog) : appendLog[i].conv # None
    /\ applied.seq > 0
    /\ calls > 0
    /\ saveLog = <<>>

\* C7 -- A save is bound to the conversation that was active when it was
\* issued: the request path and the body's conversationId both name it, and
\* what the backend persists under a conversation was saved for it.
C7_SaveBoundToCallTimeId ==
    /\ \A i \in 1..Len(saveLog) :
         /\ saveLog[i].request.path = saveLog[i].active
         /\ saveLog[i].request.body.conversationId = saveLog[i].active
    /\ \A c \in ConvIds : \A j \in 1..Len(stored[c]) :
         /\ stored[c][j].conversationId = c
         /\ stored[c][j].messageMetadata # <<>> =>
              \E i \in 1..Len(saveLog) :
                 /\ saveLog[i].active = c
                 /\ saveLog[i].request.body.messageMetadata = stored[c][j].messageMetadata

\* C7 witness: a save is still in flight after a switch to another
\* conversation.
C7_Witness ==
    /\ currentConversationId # None
    /\ \E n \in saves : saveLog[n].active # currentConversationId

\* C8 -- ConversationService.saveMessage never rejects.
C8_SaveNeverRejects ==
    lastSave.settle # "rejected"

\* C8 witness: a save was answered with a non-2xx response, and resolved.
C8_Witness ==
    lastSave.outcome = "non2xx" /\ lastSave.settle = "resolved"

\* a save failed in this step: its request was answered with a failure, or
\* the encoding of a directly saved value threw
SaveFailedStep ==
    \/ /\ saves' # saves
       /\ saves' \subseteq saves
       /\ lastSave'.outcome \in {"transport", "non2xx"}
    \/ /\ calls' = calls + 1
       /\ currentConversationId # None
       /\ Truthy(ServiceAutoSave(conversationConfig))
       /\ lastSave'.outcome = "encode"

\* C9 -- A save that fails leaves ConversationState unchanged.
C9_FailedSaveKeepsState ==
    [][ SaveFailedStep => state' = state ]_vars

\* C9 witness: a save failed in transport while a conversation was active
\* and no error was recorded.
C9_Witness ==
    /\ lastSave.outcome = "transport"
    /\ currentConversationId # None
    /\ error = None

\* the store's saveMessage ran in this step: by the auto-save effect after
\* an append, or by a direct call
StoreSaveStep ==
    \/ calls' = calls + 1
    \/ (appendLog' # appendLog /\ autoSaveMessages)

\* C10 -- With no active conversation the store's saveMessage is a no-op:
\* no request is issued and no state changes.
C10_NoActiveSaveIsNoop ==
    [][ (currentConversationId = None /\ StoreSaveStep) =>
          /\ saveLog' = saveLog
          /\ saves' = saves
          /\ stored' = stored
          /\ lastSave' = lastSave
          /\ state' = state ]_vars

\* C10 witness: with auto-save enabled, a message was appended and a direct
\* call was made while no conversation had ever been active.
C10_Witness ==
    /\ AutoSaveOn
    /\ issued = 0
    /\ currentConversationId = None
    /\ \E i \in 1..Len(appendLog) : appendLog[i].conv = None
    /\ calls > 0
    /\ saveLog = <<>>

\* the ids of a conversation list
ListIds(convs) == { convs[i].id : i \in 1..Len(convs) }

\* the operations of the hooks that C11 names
HookOperations ==
    { "autoLoad", "refresh", "loadConversations", "createNewConversation",
      "removeConversation", "switchToConversation", "clearCurrentConversation",
      "searchConversations", "filterConversations", "sortConversations" }

\* C11 -- No-config no-op: without a conversation configuration isEnabled is
\* false, the conversation list is empty, and whatever operations of the
\* hooks were called, no request of any kind was issued, no call rejected,
\* no error was recorded, and the calls returned their inert defaults.
C11_NoConfigNoop ==
    conversationConfig = NoConfig =>
      /\ ~isEnabled(conversationConfig)
      /\ conversations = <<>>
      /\ reqs = {} /\ opsIssued = 0
      /\ loads = {} /\ issued = 0 /\ hookLoads = 0
      /\ saveLog = <<>>
      /\ error = None
      /\ currentConversationId = None
      /\ ~isLoading
      /\ lastOp.settle # "rejected"
      /\ lastOp.op = "createNewConversation" => lastOp.value = <<"">>
      /\ lastOp.op \in HookOperations \ {"createNewConversation"}
           => lastOp.value = <<>>

\* C11 witness: without a configuration every operation of the hooks was
\* called.
C11_Witness ==
    /\ conversationConfig = NoConfig
    /\ noopCalls = HookOperations

\* the operations that load the conversation list
ListOperations ==
    { "autoLoad", "refresh", "loadConversations", "createNewConversation" }

\* the list request r completes in this step
ListCompletes(r) == r \in reqs /\ r.kind = "list" /\ r \notin reqs'

\* C12 -- Stale-but-available: when loadConversations fails, error is set
\* and the conversation list is exactly what it was before; when it
\* succeeds, the list is replaced by the fetched list and initialized
\* becomes true.
C12_StaleButAvailable ==
    [][ \A r \in reqs :
          ListCompletes(r) =>
            IF lastOp'.outcome = "ok"
            THEN /\ conversations' \in
                      { getConversations_result(body) : body \in ListBodies(r) }
                 /\ initialized'
            ELSE /\ error' # None
                 /\ conversations' = conversations ]_vars

\* C12 witness: a list fetch failed while the list held conversations, and
\* the list still holds them.
C12_Witness ==
    /\ lastOp.op \in ListOperations
    /\ lastOp.outcome = "non2xx"
    /\ error # None
    /\ conversations = InitialBackend

\* C13 -- Every list request that completes, with success or with failure,
\* leaves isLoading=false; isLoading is true only while a list request has
\* not yet completed.
C13_LoadingResetOnCompletion ==
    [][ /\ \A r \in reqs : ListCompletes(r) => ~isLoading'
        /\ isLoading' => \E r \in reqs' : r.kind = "list" ]_vars

\* C13 witness: a list request failed in transport, nothing is in flight and
\* isLoading is false.
C13_Witness ==
    /\ lastOp.op = "refresh"
    /\ lastOp.outcome = "transport"
    /\ reqs = {}
    /\ ~isLoading

\* the operations that wait for a list fetch or for the load of a
\* conversation's messages
LoadOperations ==
    { "autoLoad", "refresh", "loadConversations", "switchToConversation" }

\* C14 -- A failure while listing conversations or loading a conversation's
\* messages is recorded in error and is not raised: the call of
\* loadConversations, refresh or switchToConversation that waited for the
\* failed request resolves.
C14_LoadFailureNotRaised ==
    [][ ( /\ lastOp' # lastOp
          /\ lastOp'.op \in LoadOperations
          /\ lastOp'.outcome \notin {"ok", "none"} )
        => /\ lastOp'.settle = "resolved"
           /\ error' # None ]_vars

\* C14 witness: the load of switchToConversation failed and the call
\* resolved, after a list fetch had failed.
C14_Witness ==
    /\ lastOp.op = "switchToConversation"
    /\ lastOp.outcome = "fail"
    /\ lastOp.settle = "resolved"
    /\ error = "Failed to load conversation"
    /\ ~initialized
    /\ opsIssued > 0
    /\ reqs = {}

\* C15 -- At most one list request and at most one load-messages request
\* are in flight in every reachable state.
C15_AtMostOneInFlight ==
    /\ Cardinality({ r \in reqs : r.kind = "list" }) <= 1
    /\ hookLoads + Cardinality(loads) <= 1

\* the delete request r completes in this step, and the call resolves
DeleteResolves(r) ==
    r \in reqs /\ r.kind = "delete" /\ r \notin reqs' /\ lastOp'.settle = "resolved"

\* C16 -- Delete-then-list consistency: when deleteConversation(id) succeeds,
\* id is absent from the local list at once, without a refresh; and when a
\* list fetch that was sent after the deletion succeeds, id is absent from
\* the list it installs.
C16_DeleteThenListConsistent ==
    [][ /\ \A r \in reqs :
             DeleteResolves(r) => r.id \notin ListIds(conversations')
        /\ \A r \in reqs :
             (ListCompletes(r) /\ lastOp'.outcome = "ok")
               => r.after \cap ListIds(conversations') = {} ]_vars

\* C16 witness: A was in the local list, its deletion succeeded, and a list
\* fetch sent afterwards succeeded and installed a list that holds B only.
C16_Witness ==
    /\ lastOp.op = "refresh"
    /\ lastOp.outcome = "ok"
    /\ lastOp.after = {"A"}
    /\ ListIds(conversations) = {"B"}

\* a create, delete or update request completes in this step
MutationCompletes(r) ==
    r \in reqs /\ r.kind \in {"create", "delete", "update"} /\ r \notin reqs'

\* C17 -- A create, delete or update whose backend call fails (transport
\* failure or non-2xx response) rejects and leaves ConversationState
\* unchanged: in particular the id of a failed delete stays in the local
\* list.
C17_FailedMutationRejects ==
    [][ \A r \in reqs :
          (MutationCompletes(r) /\ lastOp'.outcome \in {"transport", "non2xx"})
            => /\ lastOp'.op = r.by
               /\ lastOp'.settle = "rejected"
               /\ state' = state ]_vars

\* C17 witness: the deletion of A, which the local list holds, failed with
\* a non-2xx response; the call rejected and A is still in the list.
C17_Witness ==
    /\ lastOp.op = "removeConversation"
    /\ lastOp.outcome = "non2xx"
    /\ lastOp.settle = "rejected"
    /\ "A" \in ListIds(conversations)
    /\ "A" \in BackendIds(backend)

StoreCreateStep ==
    \/ \E r \in reqs' \ reqs : r.kind = "create" /\ r.by = "createConversation"
    \/ \E r \in reqs \ reqs' : r.kind = "create" /\ r.by = "createConversation"

\* C19 -- The store's createConversation changes neither
\* currentConversationId nor the conversation list, and issues no list
\* fetch.
C19_CreateLeavesListAndCurrent ==
    [][ StoreCreateStep =>
          /\ currentConversationId' = currentConversationId
          /\ conversations' = conversations
          /\ { r \in reqs' : r.kind = "list" } = { r \in reqs : r.kind = "list" }
          /\ isLoading' = isLoading ]_vars

\* C19 witness: createConversation returned a new id while A was the active
\* conversation and the list was loaded; A is still active and the list does
\* not hold the new conversation.
C19_Witness ==
    /\ lastOp.op = "createConversation"
    /\ lastOp.settle = "resolved"
    /\ lastOp.value = <<"N">>
    /\ currentConversationId = "A"
    /\ ListIds(conversations) = {"A", "B"}
    /\ "N" \in BackendIds(backend)

\* setCurrentConversation returns in this step
SetCurrentStep ==
    lastOp' # lastOp /\ lastOp'.op = "setCurrentConversation"

\* C20 -- setCurrentConversation(id or undefined) is a pure state
\* transition: currentConversationId becomes the argument, whether the
\* conversation list holds it or not; conversations, isLoading, error and
\* initialized are unchanged; and the store sends no request (the load that
\* follows is ConversationLoader's reaction to the change).
C20_SetCurrentIsPure ==
    [][ SetCurrentStep =>
          /\ currentConversationId' = lastOp'.value[1]
          /\ conversations' = conversations
          /\ isLoading' = isLoading
          /\ error' = error
          /\ initialized' = initialized
          /\ reqs' = reqs
          /\ hookLoads' = hookLoads
          /\ saveLog' = saveLog
          /\ loads' \ loads \subseteq
               ConversationLoader_effect(currentConversationId,
                                         currentConversationId', issued + 1) ]_vars

\* C20 witness: setCurrentConversation made active an id that the loaded
\* conversation list does not hold.
C20_Witness ==
    /\ lastOp.op = "setCurrentConversation"
    /\ lastOp.value = <<"A">>
    /\ currentConversationId = "A"
    /\ initialized
    /\ "A" \notin ListIds(conversations)

\* a list request completes successfully in this step
ListSucceeds ==
    \E r \in reqs \ reqs' :
       r.kind = "list" /\ lastOp'.outcome = "ok" /\ lastOp' # lastOp

\* C21 -- initialized is false at session start; it becomes true at a
\* successful list fetch and at nothing else (so at the first one); and once
\* true it is never false again, whatever loads (successful or failed),
\* creates, deletes, switches and saves follow.
C21_InitializedLifecycle ==
    /\ ~initialized
    /\ [][ /\ initialized => initialized'
           /\ (~initialized /\ initialized') => ListSucceeds
           /\ ListSucceeds => initialized' ]_vars

\* C21 witness: the session is initialized, and after that a list fetch
\* failed, a conversation was switched to and a message was saved.
C21_Witness ==
    /\ initialized
    /\ error = "Failed to load conversations"
    /\ currentConversationId = "A"
    /\ lastSave.outcome = "ok"
    /\ lastOp.op = "refresh"
    /\ lastOp.outcome = "non2xx"
    /\ conversations # <<>>

\* C22 -- In every reachable state the ids of the entries of conversations
\* are pairwise distinct, whatever list the backend returns and after any
\* sequence of load, refresh, create and delete operations.
C22_IdsPairwiseDistinct ==
    \A i, j \in 1..Len(conversations) :
        conversations[i].id = conversations[j].id => i = j

\* the message of the live list went through encode, store and decode
RoundTripDone ==
    /\ lastOp.op = "getConversationMessages"
    /\ Len(stored["A"]) = 2

\* C23 -- Round-trip law: a host message m of a supported kind that is
\* encoded with convertCopilotMessageToApiMessage, stored, and decoded with
\* convertApiMessagesToCopilotMessages comes back with the id and the role
\* of m, and with exactly the content of m when m is a text message.
C23_RoundTrip ==
    RoundTripDone =>
        LET m == messages[1]
            d == lastOp.value[2]
        IN  /\ d.id = m.id
            /\ d.role = RoleOf(m)
            /\ (m.kind = "text" => d.data = m.data)

\* C24 -- Role mapping is total and default-safe: mapApiRoleToCopilotRole
\* answers User, Assistant or System for every wire role text; it matches
\* 'user', 'assistant' and 'system' in any mix of upper and lower case and
\* answers User for every other text; mapCopilotRoleToApiRole answers
\* 'user' for every host role other than User, Assistant and System.
C24_RoleMappingTotal ==
    /\ lastOp.op = "mapApiRoleToCopilotRole" =>
          LET w == stored["A"][1].role
              r == lastOp.value[1]
          IN  /\ r \in {"user", "assistant", "system"}
              /\ (w \in CaseVariants(W_user) => r = "user")
              /\ (w \in CaseVariants(W_assistant) => r = "assistant")
              /\ (w \in CaseVariants(W_system) => r = "system")
              /\ (w \notin CaseVariants(W_user) \cup CaseVariants(W_assistant)
                             \cup CaseVariants(W_system) => r = "user")
    /\ lastOp.op = "mapCopilotRoleToApiRole" =>
          LET h == messages[1].role
              r == lastOp.value[1]
          IN  /\ r \in {W_user, W_assistant, W_system}
              /\ (h = "assistant" => r = W_assistant)
              /\ (h = "system" => r = W_system)
              /\ (h \notin {"assistant", "system"} => r = W_user)

\* C24 witness: the wire role 'AssiStant' was mapped to Assistant.
C24_Witness ==
    /\ lastOp.op = "mapApiRoleToCopilotRole"
    /\ stored["A"][1].role = <<"A", "s", "s", "i", "S", "t", "a", "n", "t">>
    /\ lastOp.value = <<"assistant">>

\* a text: a sequence of strings
IsString(v) == \A i \in 1..Len(v) : v[i] \in STRING

\* C25 -- Encoding is total: for a message of every kind (text, action,
\* result, agent state, image, and a kind the codec does not know)
\* extractMessageContent returns a string and getMessageType returns the tag
\* of the kind; for an unknown kind they return 'Unknown message type' and
\* 'unknown'.
C25_EncodingTotal ==
    LET m == messages[1]
    IN  /\ lastOp.op = "extractMessageContent" =>
              /\ lastOp.settle = "resolved"
              /\ IsString(lastOp.value[1])
              /\ (m.kind \notin SupportedKinds =>
                     lastOp.value[1] = <<"Unknown message type">>)
        /\ lastOp.op = "getMessageType" =>
              /\ lastOp.settle = "resolved"
              /\ lastOp.value[1] =
                    << CASE m.kind = "text" -> "text"
                         [] m.kind = "action" -> "action"
                         [] m.kind = "result" -> "result"
                         [] m.kind = "agent_state" -> "agent_state"
                         [] m.kind = "image" -> "image"
                         [] OTHER -> "unknown" >>

\* C25 witness: the tag of a message of an unknown kind was asked for and
\* was 'unknown'.
C25_Witness ==
    /\ lastOp.op = "getMessageType"
    /\ messages[1].kind = "future"
    /\ lastOp.value = << <<"unknown">> >>

\* C26 -- A non-2xx response to any call of the service surfaces as a typed
\* API error that carries the HTTP status code of the response.
C26_Non2xxTypedError ==
    lastOp.outcome.kind = "non2xx" =>
        /\ lastOp.settle = "rejected"
        /\ lastOp.value # <<>>
        /\ "status" \in DOMAIN lastOp.value[1]
        /\ lastOp.value[1].status = lastOp.outcome.status

\* C27 -- Single attempt: every invocation of an operation of the service
\* issues at most one HTTP request, whatever the outcome of that request
\* (no request is issued when a request fails in transport or is answered
\* non-2xx), and every request carries the configured headers.
C27_SingleAttemptWithHeaders ==
    [][ /\ Cardinality(reqs' \ reqs) <= 1
        /\ \A r \in reqs' \ reqs :
              /\ calls' = calls + 1
              /\ r.call = calls'
              /\ \A k \in DOMAIN conversationConfig.headers :
                    /\ k \in DOMAIN r.headers
                    /\ r.headers[k] = conversationConfig.headers[k] ]_vars

\* C27 witness: a request was answered 500, its call was rejected, and the
\* only request in flight is that of the next call, with the configured
\* Authorization header.
C27_Witness ==
    /\ lastOp.outcome = Response("non2xx", 500)
    /\ lastOp.settle = "rejected"
    /\ calls = 2
    /\ opsIssued = 2
    /\ \E r \in reqs :
          /\ reqs = {r}
          /\ r.call = 2
          /\ "Authorization" \in DOMAIN r.headers
          /\ r.headers["Authorization"] = "Bearer t"

\* the template a configuration gives for an endpoint, or the default
ConfiguredTemplate(config, key) ==
    IF config.endpoints # <<>> /\ key \in DOMAIN config.endpoints[1]
    THEN config.endpoints[1][key]
    ELSE DefaultEndpoints[key]

\* C28 -- Endpoint templates are configurable with defaults: whatever
\* subset of the templates a configuration overrides, the path of every
\* request starts with the overridden template of the operation's endpoint
\* where one is given and with the default one otherwise; no path is built
\* from a missing template.
C28_EndpointDefaults ==
    \A r \in reqs :
        /\ r.path[1] = ConfiguredTemplate(conversationConfig, EndpointOf(r.op))
        /\ r.path[1] # "undefined"

\* C29 -- autoSave defaults to true: under a configuration that gives
\* autoSave no boolean value (the key is absent, or present with the value
\* undefined) saveMessage does not return without issuing the save request.
C29_AutoSaveDefaultsTrue ==
    conversationConfig.autoSave \in {"absent", "undefined"} =>
        ~ ( /\ lastOp.op = "saveMessage"
            /\ lastOp.outcome.kind = "norequest" )

\* two characters are the same letter, in whatever case
SameLetter(a, b) == UpperChar(a) = UpperChar(b)

\* text contains q, ignoring letter case
ContainsIgnoringCase(text, q) ==
    \E i \in 0..Len(text) :
        /\ i + Len(q) <= Len(text)
        /\ \A j \in 1..Len(q) : SameLetter(text[i + j], q[j])

\* conversation c matches q by its title or by its last-message preview
Matches(c, q) ==
    \/ ContainsIgnoringCase(c.title, q)
    \/ \E k \in 1..Len(c.lastMessage) : ContainsIgnoringCase(c.lastMessage[k], q)

\* result holds, in the order of list, exactly the entries of list at the
\* positions in keep
IsSelection(result, list, keep) ==
    /\ Len(result) = Cardinality(keep)
    /\ \A k \in 1..Len(result) :
          result[k] = list[CHOOSE i \in keep :
                              Cardinality({j \in keep : j <= i}) = k]

\* C30 -- Search: with conversation features enabled, searchConversations(q)
\* for a query q that is not blank returns, in list order, exactly the
\* conversations whose title or last-message preview contains q ignoring
\* letter case; a blank or whitespace-only q returns the whole list
\* unchanged.
C30_SearchMatchesIgnoringCase ==
    [][ \A q \in SearchQueries :
          Hook_searchConversations(q) =>
             IF \A i \in 1..Len(q) : q[i] \in {" ", "\t"}
             THEN lastOp'.value = conversations
             ELSE IsSelection(lastOp'.value, conversations,
                    { i \in 1..Len(conversations) : Matches(conversations[i], q) })
      ]_vars

\* C30 witness: the list holds "Trip Planning" and "Budget Review", without
\* previews, and a search (for "trip") returned only the first.
C30_Witness ==
    /\ Len(conversations) = 2
    /\ conversations[1].title = <<"T", "r", "i", "p", " ", "P", "l", "a", "n", "n", "i", "n", "g">>
    /\ conversations[2].title = <<"B", "u", "d", "g", "e", "t", " ", "R", "e", "v", "i", "e", "w">>
    /\ conversations[1].lastMessage = <<>>
    /\ conversations[2].lastMessage = <<>>
    /\ lastOp.op = "searchConversations"
    /\ lastOp.value = << conversations[1] >>

\* the requests of the create flow that are in flight
FlowRequests(kind) ==
    { r \in reqs : r.kind = kind /\ r.by = "handleCreateNew" }

\* C31 -- In the create-new-conversation flow the new conversation is made
\* active (setCurrentConversation) before the list refresh is issued: when
\* the refresh of the flow is sent, the id that create returned is the
\* active conversation.
C31_SwitchBeforeRefresh ==
    [][ \A r \in reqs' \ reqs :
           (r.kind = "list" /\ r.by = "handleCreateNew" /\ r.carry[1] # "")
              => currentConversationId' = r.carry[1] ]_vars

\* C36 -- The create handler of ConversationList keeps at most one create
\* request in flight (an activation while isCreating issues none);
\* isCreating is true exactly while the flow runs, so it is false again when
\* the flow has ended, on success and on failure; and the active
\* conversation changes only to a non-empty id that create returned.
C36_CreateHandlerGuarded ==
    /\ [] ( /\ Cardinality(FlowRequests("create")) <= 1
            /\ isCreating <=> \/ FlowRequests("create") # {}
                               \/ FlowRequests("list") # {}
                               \/ hookLoads > 0 )
    /\ [][ /\ isCreating => \A r \in reqs' \ reqs : r.kind # "create"
           /\ currentConversationId' # currentConversationId =>
                 /\ lastOp'.op = "createNewConversation"
                 /\ lastOp'.value = <<currentConversationId'>>
                 /\ currentConversationId' # "" ]_vars

\* C36 witness: the button was activated again while the create request of
\* the flow was pending; the handler returned and one create request is in
\* flight.
C36_Witness ==
    /\ isCreating
    /\ lastOp = Returned("handleCreateNew", "resolved", <<>>)
    /\ Cardinality(FlowRequests("create")) = 1
    /\ opsIssued = 1

\* the requests of createNewConversation that are sent, and that complete,
\* in this step
HookFlowSent(kind) ==
    { r \in reqs' \ reqs : r.kind = kind /\ r.by = "createNewConversation" }

HookFlowDone(kind) ==
    { r \in reqs \ reqs' : r.kind = kind /\ r.by = "createNewConversation" }

\* C35 -- createNewConversation issues its list refresh only when its create
\* has resolved, and returns the id only when that refresh has completed,
\* the id being the one create resolved with; when the create fails, no
\* refresh is issued and the call rejects.
C35_RefreshAfterCreate ==
    [][ /\ HookFlowSent("list") # {} =>
              /\ HookFlowDone("create") # {}
              /\ lastOp'.op = "createConversation"
              /\ lastOp'.settle = "resolved"
              /\ \A r \in HookFlowSent("list") : r.carry = lastOp'.value
        /\ HookFlowDone("list") # {} =>
              /\ lastOp'.op = "createNewConversation"
              /\ lastOp'.settle = "resolved"
              /\ \A r \in HookFlowDone("list") : lastOp'.value = r.carry
        /\ (lastOp' # lastOp /\ lastOp'.op = "createNewConversation"
              /\ lastOp'.settle = "resolved") => HookFlowDone("list") # {}
        /\ (HookFlowDone("create") # {} /\ lastOp'.outcome # "ok") =>
              /\ HookFlowSent("list") = {}
              /\ { r \in reqs' : r.kind = "list" } = { r \in reqs : r.kind = "list" }
              /\ lastOp'.op = "createNewConversation"
              /\ lastOp'.settle = "rejected" ]_vars

\* C35 witness: createNewConversation returned N after its refresh, whose
\* response put N into the conversation list.
C35_Witness ==
    /\ lastOp.op = "createNewConversation"
    /\ lastOp.settle = "resolved"
    /\ lastOp.outcome = "ok"
    /\ lastOp.value = <<"N">>
    /\ "N" \in ListIds(conversations)
    /\ ~isLoading

\* C32 -- convertApiMessagesToCopilotMessages maps every wire message,
\* whatever its messageMetadata.type and also when messageMetadata is
\* missing, to a text message with the id and the content of the wire
\* message and the mapped wire role; the result has the length and the order
\* of the input.
C32_DecodingTotal ==
    lastOp.op = "convertApiMessagesToCopilotMessages" =>
       LET wire == stored[currentConversationId]
           host == lastOp.value
       IN  /\ Len(host) = Len(wire)
           /\ \A i \in 1..Len(wire) :
                 /\ host[i].kind = "text"
                 /\ host[i].id = wire[i].id
                 /\ host[i].data = wire[i].content
                 /\ host[i].role =
                      (IF toLowerCase(wire[i].role) = W_assistant THEN "assistant"
                       ELSE IF toLowerCase(wire[i].role) = W_system THEN "system"
                       ELSE "user")

\* C32 witness: a list of two wire messages was converted, the first without
\* metadata, the second with the metadata type action.
C32_Witness ==
    /\ lastOp.op = "convertApiMessagesToCopilotMessages"
    /\ Len(lastOp.value) = 2
    /\ Len(stored[currentConversationId]) = 2
    /\ stored[currentConversationId][1].messageMetadata = <<>>
    /\ stored[currentConversationId][2].messageMetadata # <<>>
    /\ stored[currentConversationId][2].messageMetadata[1].type = "action"
    /\ stored[currentConversationId][2].role = W_assistant

\* C34 -- No save is issued for a deleted conversation: once
\* deleteConversation(id) has succeeded, no append to the live message list
\* causes a save request tagged with id, also when id was the active
\* conversation at the time of the delete.
C34_NoSaveForDeleted ==
    [][ Len(saveLog') > Len(saveLog) =>
           saveLog'[Len(saveLog')].request.path \notin deleted ]_vars

\* C33 -- Auto-load terminates against a failing backend: with the features
\* enabled and every list fetch failing, the auto-load effect issues only
\* finitely many loadConversations calls when the caller asks for no
\* refresh: from some moment on no step sends a list request of the effect.
C33_AutoLoadTerminates ==
    <>[][ \A r \in reqs' \ reqs : r.by # "autoLoad" ]_vars
====
